---- MODULE Spec2Model ----
(***************************************************************************)
(* PassGen: the Generator module (password, PIN, bulk), the secure random  *)
(* helper it shares with UsernameGenerator, and the callers' view of them. *)
(*                                                                         *)
(* A JavaScript string is modelled as a sequence of one-character strings, *)
(* an array as a sequence, a Set as a set.  The value `undefined` (what    *)
(* indexing past the end of a string yields) is the token Undefined.       *)
(***************************************************************************)
EXTENDS Integers, Sequences, FiniteSets, TLC

(***************************************************************************)
(* Bounds of the model.                                                    *)
(***************************************************************************)
\* Width of the random word.  The code draws a Uint32; the model draws a
\* WordBits-bit word, so that every raw word value can be enumerated.
WordBits == 7

\* Largest password length requested, largest minNumbers / minSymbols.
MaxLength == 2
MaxMin == 2

\* The PIN generator draws from the first NumDigits digits; its retry budget
\* (1000 in the code) is maxAttempts; a chain of more than MaxCallDepth
\* nested generatePIN calls exhausts the call stack.
NumDigits == 4
maxAttempts == 2
MaxCallDepth == 2

\* Largest bulk count.
MaxBulk == 2

\* Entries kept of each username word list and character set; largest
\* length / syllables / digits option of a username.
ListKeep == 2
MaxUnSize == 1

\* generatePassphrase: the largest wordCount.
MaxWords == 2

\* getStrengthLevel: the largest entropy, in bits.
MaxEntropy == 100

\* syncSliderInput: the longest text typed into the number input.
MaxTyped == 3

\* secureShuffleArray: the longest array shuffled on its own.
MaxShuffle == 3

\* The page: the bulk runs followed from first to last.
MaxRuns == 2

\* calculatePoolSize: the longest string analysed.
MaxPoolLen == 3

\* The copy button: the clicks followed.
MaxClicks == 3

(***************************************************************************)
(* Small helpers on sequences.                                             *)
(***************************************************************************)
Range(s) == {s[i] : i \in 1..Len(s)}

RECURSIVE Pow2(_)
Pow2(n) == IF n = 0 THEN 1 ELSE 2 * Pow2(n - 1)

\* s with the element at 1-based position i removed (Array.prototype.splice(i-1, 1)).
RemoveAt(s, i) == SubSeq(s, 1, i - 1) \o SubSeq(s, i + 1, Len(s))

\* s with the elements at positions i and j exchanged.
Swap(s, i, j) == [s EXCEPT ![i] = s[j], ![j] = s[i]]

VARIABLES
    cryptoOK,       \* crypto.getRandomValues is available
    drew,           \* crypto.getRandomValues has delivered a word
    rndMax,         \* getSecureRandomInt: the argument max
    rndWord,        \* getSecureRandomInt: array[0]
    rndPc,          \* getSecureRandomInt: "call", "loop", "returned", "threw"
    rndResult,      \* getSecureRandomInt: the value returned
    options,        \* generatePassword: the caller's options object
    opts,           \* generatePassword: { ...defaults, ...options }
    charPool,       \* generatePassword: let charPool
    requiredChars,  \* generatePassword: let requiredChars
    password,       \* generatePassword: let password
    usedChars,      \* generatePassword: let usedChars
    availablePool,  \* generatePassword: let availablePool
    shuffled,       \* secureShuffleArray: const shuffled
    shI,            \* secureShuffleArray: the loop index i
    pwPc,           \* generatePassword: where the call stands
    pwResult,       \* generatePassword: the string returned
    pwCalls,        \* generatePassword: its getSecureRandomInt calls so far, by purpose
    pinOptions,     \* generatePIN: the options of the outermost call
    pinOpts,        \* generatePIN: { ...defaults, ...options } of the running call
    pin,            \* generatePIN: let pin
    attempts,       \* generatePIN: let attempts
    pinDepth,       \* generatePIN: calls nested inside the outermost one
    pinPc,          \* generatePIN: where the call stands
    pinResult,      \* generatePIN: the string returned
    bulkCount,      \* generateBulk: the argument count
    passwords,      \* generateBulk: const passwords
    bulkPc,         \* generateBulk: where the call stands
    bulkResult,     \* generateBulk: the array returned
    unStyle,        \* UsernameGenerator.generate: the argument style
    unOptions,      \* UsernameGenerator.generate: the argument options
    unRecipe,       \* UsernameGenerator.generate: the function dispatched to
    unDraws,        \* the values its getSecureRandomInt calls returned, in order
    unPc,           \* UsernameGenerator.generate: where the call stands
    unResult,       \* UsernameGenerator.generate: the string returned
    wordlist,       \* EFF_WORDLIST: "undefined", "empty" or "loaded"
    ppOptions,      \* generatePassphrase: the caller's options object
    ppDraws,        \* generatePassphrase: the indices drawn for words, in order
    ppPc,           \* generatePassphrase: where the call stands
    ppResult,       \* generatePassphrase: the string returned
    ppWords,        \* generatePassphrase: let words, as it is joined
    ui,             \* the page: the password form's fields and bulkCount
    appCall,        \* the page: the handler that ran, and whether it found all classes off
    csv,            \* the page: the text handed to the download, <<>> before
    strength,       \* StrengthAnalyzer: variant, two entropies, their levels
    sync,           \* syncSliderInput: the pair of elements, their values, the last event
    theme,          \* Theme: currentTheme, the document, localStorage, the system scheme
    shuf,           \* secureShuffleArray called on its own: argument, draws, result
    page,           \* the page: bulkPasswords, the list shown, the text copied, the last event
    psize,          \* calculatePoolSize called on its own: argument and result
    copy            \* a copy button: class, label, copies under way, timers pending

rndVars == <<rndMax, rndWord, rndPc, rndResult>>

pwVars == <<options, opts, charPool, requiredChars, password, usedChars,
            availablePool, shuffled, shI, pwPc, pwResult, pwCalls>>

pinVars == <<pinOptions, pinOpts, pin, attempts, pinDepth, pinPc, pinResult>>

bulkVars == <<bulkCount, passwords, bulkPc, bulkResult>>

unVars == <<unStyle, unOptions, unRecipe, unDraws, unPc, unResult>>

ppVars == <<wordlist, ppOptions, ppDraws, ppPc, ppResult, ppWords>>

\* The variables of the operations outside the four credential generators.
appVars == <<ui, appCall, csv>>

\* The operations checked on their own.
lateVars == <<shuf, page, psize, copy>>

moreVars == <<ppVars, appVars, strength, sync, theme, lateVars>>

vars == <<cryptoOK, drew, rndVars, pwVars, pinVars, bulkVars, unVars, moreVars>>

\* What the actions of one component leave alone (drew apart).
notRnd == <<cryptoOK, pwVars, pinVars, bulkVars, unVars, moreVars>>

notPw == <<cryptoOK, rndVars, pinVars, bulkVars, unVars, moreVars>>

notPin == <<cryptoOK, rndVars, pwVars, bulkVars, unVars, moreVars>>

notPwBulk == <<cryptoOK, rndVars, pinVars, unVars, moreVars>>

notUn == <<cryptoOK, rndVars, pwVars, pinVars, bulkVars, moreVars>>

notPp == <<cryptoOK, rndVars, pwVars, pinVars, bulkVars, unVars, appVars, strength, sync, theme, lateVars>>

notApp == <<cryptoOK, rndVars, pinVars, unVars, ppVars, strength, sync, theme, lateVars>>

\* The credential generators and the page.
coreVars == <<cryptoOK, drew, rndVars, pwVars, pinVars, bulkVars, unVars, ppVars, appVars>>

\* A getSecureRandomInt(max) call has returned: words were delivered to it
\* unless max <= 0.
Drew(max) == drew' = (drew \/ max > 0)

None == "none"

(***************************************************************************)
(* getSecureRandomInt (Generator and UsernameGenerator carry the same      *)
(* code).                                                                  *)
(***************************************************************************)
\* const maxUint32 = 0xFFFFFFFF, at the width of the model's word.
maxUint32 == Pow2(WordBits) - 1

\* The values a Uint32Array element can be filled with.
Words == 0..maxUint32

\* A limit that rejects nothing but the largest word (no remainder taken off).
LimitNoRemainder(max) == maxUint32

\* const limit = maxUint32 - (maxUint32 % max);
Limit(max) == maxUint32 - (maxUint32 % max)

\* do { ... } while (array[0] >= limit): the loop ends on a word below limit.
Accepted(word, max) == word < Limit(max)

\* A source that delivers words whether or not crypto is there.
getRandomValuesOrWeak == Words

\* The words crypto.getRandomValues can deliver; it throws when the secure
\* source is missing (the empty set: no word is delivered).
getRandomValues == IF cryptoOK THEN Words ELSE {}

\* A call with max > 0 reaches crypto.getRandomValues, which throws.
Throws(max) == max > 0 /\ getRandomValues = {}

\* array[0] % max over the words that end the loop, for each max > 0.
ReturnedFor == [max \in 1..maxUint32 |-> {w % max : w \in {v \in Words : Accepted(v, max)}}] @@ <<>>

\* The values getSecureRandomInt(max) can return: 0 without a draw when
\* max <= 0; none when crypto.getRandomValues throws.
getSecureRandomInt(max) ==
    IF max <= 0 THEN {0}
    ELSE IF getRandomValues = {} THEN {}
    ELSE ReturnedFor[max]

RndInit ==
    /\ rndMax \in 0..maxUint32
    /\ rndWord = 0
    /\ rndPc = "call"
    /\ rndResult = None

RndIdle ==
    /\ rndMax = 0
    /\ rndWord = 0
    /\ rndPc = "idle"
    /\ rndResult = None

\* if (max <= 0) return 0; const array = new Uint32Array(1);
RndCall ==
    /\ rndPc = "call"
    /\ IF rndMax <= 0
       THEN /\ rndPc' = "returned"
            /\ rndResult' = 0
       ELSE /\ rndPc' = "loop"
            /\ rndResult' = rndResult
    /\ UNCHANGED <<rndMax, rndWord>>
    /\ UNCHANGED <<drew, notRnd>>

\* One turn of the do-while loop: fill array[0], test it against limit,
\* and return array[0] % max when the loop ends.
RndDraw ==
    /\ rndPc = "loop"
    /\ getRandomValues # {}
    /\ \E w \in getRandomValues :
        /\ rndWord' = w
        /\ IF Accepted(w, rndMax)
           THEN /\ rndPc' = "returned"
                /\ rndResult' = w % rndMax
           ELSE /\ rndPc' = "loop"
                /\ rndResult' = rndResult
    /\ drew' = TRUE
    /\ UNCHANGED rndMax
    /\ UNCHANGED notRnd

\* crypto.getRandomValues raises: the exception leaves getSecureRandomInt.
RndThrow ==
    /\ rndPc = "loop"
    /\ Throws(rndMax)
    /\ rndPc' = "threw"
    /\ UNCHANGED <<rndMax, rndWord, rndResult>>
    /\ UNCHANGED <<drew, notRnd>>

(***************************************************************************)
(* Properties of getSecureRandomInt.                                       *)
(***************************************************************************)
\* The words that end the loop of getSecureRandomInt(max) with the value r.
WordsReturning(max, r) == {w \in Words : Accepted(w, max) /\ w % max = r}

\* For each max, whether every value of 0..max-1 is returned for the same,
\* nonzero number of words (tabulated once).
UnbiasedFor ==
    [max \in 1..maxUint32 |->
        \A r \in 0..(max - 1) :
            /\ WordsReturning(max, r) # {}
            /\ Cardinality(WordsReturning(max, r))
                 = Cardinality(WordsReturning(max, 0))] @@ <<>>

\* C7: for max >= 1 the value returned lies in 0..max-1, and every value of
\* that range is returned for the same, nonzero number of words.
C7_InRangeAndUnbiased ==
    rndMax >= 1 =>
        /\ rndPc = "returned" => rndResult \in 0..(rndMax - 1)
        /\ UnbiasedFor[rndMax]

\* C22: a drawn word ends the loop exactly when it is below
\* 2^w - (2^w mod max), w the width of a word; so no word is rejected when
\* max divides 2^w.
C22_AcceptedBelowPowerLimit ==
    (drew /\ rndMax >= 1 /\ rndPc \in {"loop", "returned"}) =>
        ((rndPc = "returned") <=> rndWord < Pow2(WordBits) - (Pow2(WordBits) % rndMax))

\* A call whose max does not divide the word count returned its largest
\* value, after a word was rejected on the way.
C7_Witness ==
    /\ rndPc = "returned" /\ rndMax > 1 /\ (maxUint32 + 1) % rndMax # 0
    /\ rndResult = rndMax - 1
    /\ rndWord >= rndMax

(***************************************************************************)
(* Generator.CHARS.  Each class string is written out as in the source;    *)
(* the model works on the sub-string Restrict keeps, which holds the first  *)
(* plain, the first ambiguous and the first bracket character of the class *)
(* (AI, al, 02 and !(| for the four classes).                              *)
(***************************************************************************)
Undefined == "undefined"

CHARS_ambiguous == <<"0", "O", "1", "l", "I", "|">>

CHARS_brackets == <<"{", "}", "[", "]", "(", ")", "\\", "/", "'", "\"">>

Kind(c) ==
    IF c \in Range(CHARS_ambiguous) THEN "ambiguous"
    ELSE IF c \in Range(CHARS_brackets) THEN "bracket"
    ELSE "plain"

\* s[i] is the first character of its kind in s.
Kept(s, i) == \A j \in 1..(i - 1) : Kind(s[j]) # Kind(s[i])

RECURSIVE RestrictFrom(_, _)
RestrictFrom(s, i) ==
    IF i > Len(s) THEN <<>>
    ELSE (IF Kept(s, i) THEN <<s[i]>> ELSE <<>>) \o RestrictFrom(s, i + 1)

Restrict(s) == RestrictFrom(s, 1)

UPPERCASE == <<"A", "B", "C", "D", "E", "F", "G", "H", "I", "J", "K", "L", "M",
               "N", "O", "P", "Q", "R", "S", "T", "U", "V", "W", "X", "Y", "Z">>

LOWERCASE == <<"a", "b", "c", "d", "e", "f", "g", "h", "i", "j", "k", "l", "m",
               "n", "o", "p", "q", "r", "s", "t", "u", "v", "w", "x", "y", "z">>

NUMBERS == <<"0", "1", "2", "3", "4", "5", "6", "7", "8", "9">>

SYMBOLS == <<"!", "@", "#", "$", "%", "^", "&", "*", "(", ")", "_", "+", "-",
             "=", "[", "]", "{", "}", "|", ";", ":", ",", ".", "<", ">", "?">>

CHARS_uppercase == Restrict(UPPERCASE)

CHARS_lowercase == Restrict(LOWERCASE)

CHARS_numbers == Restrict(NUMBERS)

CHARS_symbols == Restrict(SYMBOLS)

\* str.split('').filter(char => !charsToRemove.includes(char)).join('')
removeChars(str, charsToRemove) ==
    SelectSeq(str, LAMBDA c : c \notin Range(charsToRemove))

\* str[i] for a 0-based index i: undefined past the end of the string.
CharAt(str, i) == IF i + 1 \in 1..Len(str) THEN str[i + 1] ELSE Undefined

\* String(x), as applied by the + operator to a non-string operand.
StringOf(x) ==
    IF x = Undefined THEN <<"u", "n", "d", "e", "f", "i", "n", "e", "d">>
    ELSE <<x>>

\* Array.prototype.join(''): undefined elements contribute the empty string.
RECURSIVE Join(_)
Join(arr) ==
    IF arr = <<>> THEN <<>>
    ELSE (IF Head(arr) = Undefined THEN <<>> ELSE <<Head(arr)>>) \o Join(Tail(arr))

(***************************************************************************)
(* generatePassword: the class strings after their exclusion filters.      *)
(***************************************************************************)
\* An excludeAmbiguous filter that reaches every class string.
AmbiguousOff(o, chars) ==
    IF o.excludeAmbiguous THEN removeChars(chars, CHARS_ambiguous) ELSE chars

UppercaseChars(o) == AmbiguousOff(o, CHARS_uppercase)

LowercaseChars(o) == AmbiguousOff(o, CHARS_lowercase)

NumberChars(o) == AmbiguousOff(o, CHARS_numbers)

\* let chars = opts.customSymbols || CHARS.symbols; (null and '' are falsy)
SymbolChars(o) ==
    LET chars == IF o.customSymbols = <<>> THEN CHARS_symbols ELSE o.customSymbols
    IN  IF o.excludeBrackets THEN removeChars(chars, CHARS_brackets) ELSE chars

\* The letters-only pool of the begin-with-letter step.
LetterPool(o) ==
    (IF o.uppercase THEN UppercaseChars(o) ELSE <<>>)
        \o (IF o.lowercase THEN LowercaseChars(o) ELSE <<>>)

\* The number of required characters the numbers block pushes.
NumbersRequired(o) == IF o.numbers THEN o.minNumbers ELSE 0

\* The required-characters loop: push char unless the buffer is full or,
\* under noRepeating, char is already used.
RECURSIVE PlaceRequired(_, _, _, _)
PlaceRequired(req, pw, used, o) ==
    IF req = <<>> THEN [password |-> pw, usedChars |-> used]
    ELSE LET char == Head(req)
             push == Len(pw) < o.length /\ (~o.noRepeating \/ char \notin used)
         IN  PlaceRequired(Tail(req),
                           IF push THEN Append(pw, char) ELSE pw,
                           IF push /\ o.noRepeating THEN used \cup {char} ELSE used,
                           o)

\* A final shuffle that never keeps the first element in place.
KeepFirstNever == FALSE

\* if (opts.beginWithLetter && password.length > 1): the first element stays.
KeepFirst == opts.beginWithLetter /\ Len(password) > 1

(***************************************************************************)
(* generatePassword as a state machine: one step per secure draw.          *)
(***************************************************************************)
\* No getSecureRandomInt call made yet: none to select a character, none in
\* secureShuffleArray.
NoCalls == [select |-> 0, shuffle |-> 0]

\* generatePassword makes one more getSecureRandomInt call of this purpose.
Called(purpose) == pwCalls' = [pwCalls EXCEPT ![purpose] = @ + 1]

PwIdle ==
    /\ options = None
    /\ opts = None
    /\ charPool = <<>>
    /\ requiredChars = <<>>
    /\ password = <<>>
    /\ usedChars = {}
    /\ availablePool = <<>>
    /\ shuffled = <<>>
    /\ shI = 0
    /\ pwPc = "idle"
    /\ pwResult = None
    /\ pwCalls = NoCalls

\* The state at the call generatePassword(o).
PwCalled(o) ==
    /\ options = o
    /\ opts = None
    /\ charPool = <<>>
    /\ requiredChars = <<>>
    /\ password = <<>>
    /\ usedChars = {}
    /\ availablePool = <<>>
    /\ shuffled = <<>>
    /\ shI = 0
    /\ pwPc = "call"
    /\ pwResult = None
    /\ pwCalls = NoCalls

\* const opts = { ...defaults, ...options }; the uppercase and lowercase blocks.
PwCall ==
    /\ pwPc = "call"
    /\ opts' = options
    /\ charPool' = (IF options.uppercase THEN UppercaseChars(options) ELSE <<>>)
                     \o (IF options.lowercase THEN LowercaseChars(options) ELSE <<>>)
    /\ requiredChars' = <<>>
    /\ pwPc' = "numbers"
    /\ UNCHANGED <<options, password, usedChars, availablePool, shuffled, shI, pwResult>>
    /\ UNCHANGED <<drew, pwCalls, notPw>>

\* if (opts.numbers) { ... charPool += chars; the loop follows in PwReqNumber.
PwNumbers ==
    /\ pwPc = "numbers"
    /\ charPool' = IF opts.numbers THEN charPool \o NumberChars(opts) ELSE charPool
    /\ pwPc' = IF opts.numbers /\ opts.minNumbers > 0 THEN "reqNumbers" ELSE "symbols"
    /\ UNCHANGED <<options, opts, requiredChars, password, usedChars, availablePool,
                   shuffled, shI, pwResult>>
    /\ UNCHANGED <<drew, pwCalls, notPw>>

\* requiredChars.push(chars[getSecureRandomInt(chars.length)]) for the numbers.
PwReqNumber ==
    /\ pwPc = "reqNumbers"
    /\ \E r \in getSecureRandomInt(Len(NumberChars(opts))) :
        requiredChars' = Append(requiredChars, CharAt(NumberChars(opts), r))
    /\ pwPc' = IF Len(requiredChars) + 1 < opts.minNumbers THEN "reqNumbers" ELSE "symbols"
    /\ UNCHANGED <<options, opts, charPool, password, usedChars, availablePool,
                   shuffled, shI, pwResult>>
    /\ Drew(Len(NumberChars(opts)))
    /\ Called("select")
    /\ UNCHANGED notPw

\* if (opts.symbols) { ... charPool += chars; the loop follows in PwReqSymbol.
PwSymbols ==
    /\ pwPc = "symbols"
    /\ charPool' = IF opts.symbols THEN charPool \o SymbolChars(opts) ELSE charPool
    /\ pwPc' = IF opts.symbols /\ opts.minSymbols > 0 THEN "reqSymbols" ELSE "fallback"
    /\ UNCHANGED <<options, opts, requiredChars, password, usedChars, availablePool,
                   shuffled, shI, pwResult>>
    /\ UNCHANGED <<drew, pwCalls, notPw>>

\* requiredChars.push(chars[getSecureRandomInt(chars.length)]) for the symbols.
PwReqSymbol ==
    /\ pwPc = "reqSymbols"
    /\ \E r \in getSecureRandomInt(Len(SymbolChars(opts))) :
        requiredChars' = Append(requiredChars, CharAt(SymbolChars(opts), r))
    /\ pwPc' = IF Len(requiredChars) + 1 - NumbersRequired(opts) < opts.minSymbols
               THEN "reqSymbols" ELSE "fallback"
    /\ UNCHANGED <<options, opts, charPool, password, usedChars, availablePool,
                   shuffled, shI, pwResult>>
    /\ Drew(Len(SymbolChars(opts)))
    /\ Called("select")
    /\ UNCHANGED notPw

\* The same step with opts an alias of the caller's object instead of a
\* copy: the clamp is written through to options.
PwFallbackClampInPlace ==
    /\ pwPc = "fallback"
    /\ LET pool == IF Len(charPool) = 0 THEN CHARS_lowercase ELSE charPool
           clamped == IF opts.noRepeating /\ opts.length > Len(pool)
                      THEN [opts EXCEPT !.length = Len(pool)]
                      ELSE opts
       IN  /\ charPool' = pool
           /\ opts' = clamped
           /\ options' = clamped
    /\ password' = <<>>
    /\ usedChars' = {}
    /\ pwPc' = "seed"
    /\ UNCHANGED <<requiredChars, availablePool, shuffled, shI, pwResult>>
    /\ UNCHANGED <<drew, pwCalls, notPw>>

\* The lowercase fallback of an empty pool and the noRepeating length clamp.
PwFallbackClamp ==
    /\ pwPc = "fallback"
    /\ LET pool == IF Len(charPool) = 0 THEN CHARS_lowercase ELSE charPool
       IN  /\ charPool' = pool
           /\ opts' = IF opts.noRepeating /\ opts.length > Len(pool)
                      THEN [opts EXCEPT !.length = Len(pool)]
                      ELSE opts
    /\ password' = <<>>
    /\ usedChars' = {}
    /\ pwPc' = "seed"
    /\ UNCHANGED <<options, requiredChars, availablePool, shuffled, shI, pwResult>>
    /\ UNCHANGED <<drew, pwCalls, notPw>>

\* The required-characters loop, then let availablePool = ...
PwPlaced(pw, used) ==
    LET placed == PlaceRequired(requiredChars, pw, used, opts)
    IN  /\ password' = placed.password
        /\ usedChars' = placed.usedChars
        /\ availablePool' = IF opts.noRepeating
                            THEN SelectSeq(charPool, LAMBDA c : c \notin placed.usedChars)
                            ELSE charPool
        /\ pwPc' = "fill"

\* if (opts.beginWithLetter) with a letter pool: the first character is drawn.
PwSeed ==
    /\ pwPc = "seed"
    /\ opts.beginWithLetter
    /\ Len(LetterPool(opts)) > 0
    /\ \E r \in getSecureRandomInt(Len(LetterPool(opts))) :
        LET firstChar == CharAt(LetterPool(opts), r)
        IN  PwPlaced(<<firstChar>>, IF opts.noRepeating THEN {firstChar} ELSE {})
    /\ UNCHANGED <<options, opts, charPool, requiredChars, shuffled, shI, pwResult>>
    /\ Drew(Len(LetterPool(opts)))
    /\ Called("select")
    /\ UNCHANGED notPw

\* beginWithLetter off, or no letter class enabled: nothing is seeded.
PwNoSeed ==
    /\ pwPc = "seed"
    /\ ~(opts.beginWithLetter /\ Len(LetterPool(opts)) > 0)
    /\ PwPlaced(<<>>, {})
    /\ UNCHANGED <<options, opts, charPool, requiredChars, shuffled, shI, pwResult>>
    /\ UNCHANGED <<drew, pwCalls, notPw>>

\* One turn of while (password.length < opts.length && availablePool.length > 0).
PwFill ==
    /\ pwPc = "fill"
    /\ Len(password) < opts.length /\ Len(availablePool) > 0
    /\ \E index \in getSecureRandomInt(Len(availablePool)) :
        /\ password' = Append(password, CharAt(availablePool, index))
        /\ availablePool' = IF opts.noRepeating
                            THEN RemoveAt(availablePool, index + 1)
                            ELSE availablePool
    /\ UNCHANGED <<options, opts, charPool, requiredChars, usedChars, shuffled, shI,
                   pwPc, pwResult>>
    /\ Drew(Len(availablePool))
    /\ Called("select")
    /\ UNCHANGED notPw

\* The fill loop ends; secureShuffleArray copies its argument:
\* password.slice(1) when the first element stays, else password.
PwShuffleStart ==
    /\ pwPc = "fill"
    /\ ~(Len(password) < opts.length /\ Len(availablePool) > 0)
    /\ shuffled' = IF KeepFirst THEN Tail(password) ELSE password
    /\ shI' = Len(shuffled') - 1
    /\ pwPc' = "shuffle"
    /\ UNCHANGED <<options, opts, charPool, requiredChars, password, usedChars,
                   availablePool, pwResult>>
    /\ UNCHANGED <<drew, pwCalls, notPw>>

\* A turn of the loop that calls getSecureRandomInt twice and uses the second value.
PwShuffleStepTwoDraws ==
    /\ pwPc = "shuffle"
    /\ shI > 0
    /\ \E j \in getSecureRandomInt(shI + 1) :
        shuffled' = Swap(shuffled, shI + 1, j + 1)
    /\ shI' = shI - 1
    /\ UNCHANGED <<options, opts, charPool, requiredChars, password, usedChars,
                   availablePool, pwPc, pwResult>>
    /\ Drew(shI + 1)
    /\ pwCalls' = [pwCalls EXCEPT !.shuffle = @ + 2]
    /\ UNCHANGED notPw

\* for (let i = shuffled.length - 1; i > 0; i--) { swap i and getSecureRandomInt(i + 1) }
PwShuffleStep ==
    /\ pwPc = "shuffle"
    /\ shI > 0
    /\ \E j \in getSecureRandomInt(shI + 1) :
        shuffled' = Swap(shuffled, shI + 1, j + 1)
    /\ shI' = shI - 1
    /\ UNCHANGED <<options, opts, charPool, requiredChars, password, usedChars,
                   availablePool, pwPc, pwResult>>
    /\ Drew(shI + 1)
    /\ Called("shuffle")
    /\ UNCHANGED notPw

\* return firstChar + rest.join('')  or  return secureShuffleArray(password).join('')
PwReturn ==
    /\ pwPc = "shuffle"
    /\ shI <= 0
    /\ pwResult' = IF KeepFirst
                   THEN StringOf(password[1]) \o Join(shuffled)
                   ELSE Join(shuffled)
    /\ pwPc' = "returned"
    /\ UNCHANGED <<options, opts, charPool, requiredChars, password, usedChars,
                   availablePool, shuffled, shI>>
    /\ UNCHANGED <<drew, pwCalls, notPw>>

\* The argument of the getSecureRandomInt call generatePassword stands at.
PwDrawMax ==
    CASE pwPc = "reqNumbers" -> Len(NumberChars(opts))
      [] pwPc = "reqSymbols" -> Len(SymbolChars(opts))
      [] pwPc = "seed" -> IF opts.beginWithLetter THEN Len(LetterPool(opts)) ELSE 0
      [] pwPc = "fill" -> IF Len(password) < opts.length THEN Len(availablePool) ELSE 0
      [] pwPc = "shuffle" -> IF shI > 0 THEN shI + 1 ELSE 0
      [] OTHER -> 0

\* crypto.getRandomValues raises; generatePassword has no handler, so the
\* exception leaves it and nothing is returned.
PwThrow ==
    /\ Throws(PwDrawMax)
    /\ pwPc' = "threw"
    /\ UNCHANGED <<options, opts, charPool, requiredChars, password, usedChars,
                   availablePool, shuffled, shI, pwResult>>
    /\ UNCHANGED <<drew, pwCalls, notPw>>

PwNext ==
    \/ PwCall \/ PwNumbers \/ PwReqNumber \/ PwSymbols \/ PwReqSymbol
    \/ PwFallbackClamp \/ PwSeed \/ PwNoSeed \/ PwFill \/ PwShuffleStart
    \/ PwShuffleStep \/ PwReturn \/ PwThrow

(***************************************************************************)
(* The configurations generatePassword is called with.                     *)
(***************************************************************************)
\* The contents of the custom-symbols field: empty (null), a set of two
\* symbols, one symbol typed twice, and a lone bracket.
CustomSymbolsChoices == {<<>>, <<"#", "$">>, <<"#", "#">>, <<"(">>}

PasswordOptions ==
    [length : 1..MaxLength,
     uppercase : BOOLEAN, lowercase : BOOLEAN, numbers : BOOLEAN, symbols : BOOLEAN,
     excludeAmbiguous : BOOLEAN, excludeBrackets : BOOLEAN,
     customSymbols : CustomSymbolsChoices,
     minNumbers : 0..MaxMin, minSymbols : 0..MaxMin,
     beginWithLetter : BOOLEAN, noRepeating : BOOLEAN]

(***************************************************************************)
(* Properties of generatePassword.                                         *)
(***************************************************************************)
PwReturned == pwPc = "returned"

\* The pool of the configuration o over the whole class strings: the enabled
\* classes after their filters, or the lowercase letters when none is left.
WholePool(o) ==
    LET amb(str) == IF o.excludeAmbiguous THEN removeChars(str, CHARS_ambiguous) ELSE str
        sym == IF o.customSymbols = <<>> THEN SYMBOLS ELSE o.customSymbols
        pool == (IF o.uppercase THEN amb(UPPERCASE) ELSE <<>>)
                  \o (IF o.lowercase THEN amb(LOWERCASE) ELSE <<>>)
                  \o (IF o.numbers THEN amb(NUMBERS) ELSE <<>>)
                  \o (IF o.symbols
                      THEN (IF o.excludeBrackets THEN removeChars(sym, CHARS_brackets) ELSE sym)
                      ELSE <<>>)
    IN  IF pool = <<>> THEN LOWERCASE ELSE pool

IsLetter(c) == c \in Range(UPPERCASE) \cup Range(LOWERCASE)

NoDuplicates(str) == \A i, j \in 1..Len(str) : i # j => str[i] # str[j]

\* The number of characters of str that belong to the class string chars.
CountIn(str, chars) == Cardinality({i \in 1..Len(str) : str[i] \in Range(chars)})

\* The begin-with-letter step seeds a character.
Seeds(o) == o.beginWithLetter /\ Len(LetterPool(o)) > 0

\* C1: the string returned has the requested length, or the pool size when
\* noRepeating is set and the requested length exceeds the pool size.
C1_LengthAsRequested ==
    PwReturned =>
        Len(pwResult) = IF options.noRepeating /\ options.length > Len(charPool)
                        THEN Len(charPool)
                        ELSE options.length

\* C2: under noRepeating with a requested length within the pool size, no
\* character occurs twice in the string returned.
C2_NoRepeatedCharacter ==
    (PwReturned /\ options.noRepeating /\ options.length <= Len(charPool))
        => NoDuplicates(pwResult)

\* C3: with numbers and symbols enabled, enough distinct characters in both
\* filtered classes and room for the required characters, the string returned
\* holds at least minNumbers digits and at least minSymbols symbols.
C3_MinimumsMet ==
    (/\ PwReturned
     /\ options.numbers /\ options.symbols
     /\ Cardinality(Range(NumberChars(options))) >= options.minNumbers
     /\ Cardinality(Range(SymbolChars(options))) >= options.minSymbols
     /\ options.minNumbers + options.minSymbols
            + (IF Seeds(options) THEN 1 ELSE 0) <= opts.length)
        => /\ CountIn(pwResult, NumberChars(options)) >= options.minNumbers
           /\ CountIn(pwResult, SymbolChars(options)) >= options.minSymbols

C5_OnlyPoolCharacters ==
    PwReturned => \A i \in 1..Len(pwResult) : pwResult[i] \in Range(WholePool(options))

\* C6: under excludeAmbiguous the string returned holds none of 0 O 1 l I |.
C6_NoAmbiguousCharacter ==
    (PwReturned /\ options.excludeAmbiguous)
        => \A i \in 1..Len(pwResult) : pwResult[i] \notin Range(CHARS_ambiguous)

\* C25: generatePassword makes at most 1 + minNumbers + minSymbols + length
\* getSecureRandomInt calls to select characters and fewer than length in
\* the shuffle, length being the length asked for; and it is never stuck
\* before it returns or throws.
C25_BoundedCalls ==
    pwPc # "idle" =>
        /\ pwCalls.select <= 1 + options.minNumbers + options.minSymbols + options.length
        /\ pwCalls.shuffle < options.length
        /\ pwPc \notin {"returned", "threw"} => ENABLED PwNext

\* A call that drew a required number and filled the rest has returned
\* after shuffling the whole buffer.
C25_Witness ==
    /\ pwPc = "returned"
    /\ ~options.beginWithLetter /\ options.numbers /\ options.minNumbers > 0
    /\ pwCalls.select >= 2
    /\ pwCalls.shuffle = options.length - 1
    /\ pwCalls.shuffle > 0

\* C24: the final shuffle leaves the first element out only when the
\* begin-with-letter step seeded it; otherwise the whole buffer is shuffled.
C24_FirstHeldOnlyIfSeeded ==
    pwPc \in {"shuffle", "returned"} =>
        LET seeded == opts.beginWithLetter /\ Len(LetterPool(opts)) > 0
        IN  /\ Len(shuffled) < Len(password) => seeded
            /\ ~seeded => Len(shuffled) = Len(password)

(***************************************************************************)
(* generatePIN.                                                            *)
(***************************************************************************)
\* const digits = '0123456789', cut to its first NumDigits characters.
digits == SubSeq(NUMBERS, 1, NumDigits)

\* parseInt of a one-digit string.
parseInt(d) == CHOOSE n \in 0..9 : NUMBERS[n + 1] = d

\* Math.abs
Abs(x) == IF x < 0 THEN -x ELSE x

\* if (opts.noRepeatedDigits && pin.includes(digit)) { attempts++; continue; }
RejectedAsRepeat(o, p, digit) == o.noRepeatedDigits /\ digit \in Range(p)

\* A sequential-digits block that looks for ascending runs only.
RejectedAscendingOnly(o, p, digit) ==
    /\ o.noSequentialDigits /\ Len(p) >= 2
    /\ parseInt(p[Len(p)]) - parseInt(p[Len(p) - 1]) = 1
    /\ parseInt(digit) - parseInt(p[Len(p)]) = 1

\* A sequential-digits block that stops at the first test: a neighbour of
\* the last digit is rejected.
RejectedAsNeighbour(o, p, digit) ==
    /\ o.noSequentialDigits /\ Len(p) > 0
    /\ Abs(parseInt(digit) - parseInt(p[Len(p)])) = 1

\* The sequential-digits block: digit would end a run of three digits that
\* step by +1, +1 or by -1, -1.
RejectedAsSequential(o, p, digit) ==
    /\ o.noSequentialDigits /\ Len(p) > 0
    /\ LET lastDigit == parseInt(p[Len(p)])
           currentDigit == parseInt(digit)
       IN  /\ Abs(currentDigit - lastDigit) = 1
           /\ Len(p) >= 2
           /\ LET prevDigit == parseInt(p[Len(p) - 1])
                  diff1 == lastDigit - prevDigit
                  diff2 == currentDigit - lastDigit
              IN  (diff1 = 1 /\ diff2 = 1) \/ (diff1 = -1 /\ diff2 = -1)

\* A fallback that drops both constraints.
RelaxedBoth(o) == [o EXCEPT !.noSequentialDigits = FALSE, !.noRepeatedDigits = FALSE]

\* { ...opts, noSequentialDigits: false }
Relaxed(o) == [o EXCEPT !.noSequentialDigits = FALSE]

PinIdle ==
    /\ pinOptions = None
    /\ pinOpts = None
    /\ pin = <<>>
    /\ attempts = 0
    /\ pinDepth = 0
    /\ pinPc = "idle"
    /\ pinResult = None

\* The state at the call generatePIN(o).
PinCalled(o) ==
    /\ pinOptions = o
    /\ pinOpts = None
    /\ pin = <<>>
    /\ attempts = 0
    /\ pinDepth = 0
    /\ pinPc = "call"
    /\ pinResult = None

\* const opts = { ...defaults, ...options }; let pin = []; let attempts = 0;
PinCall ==
    /\ pinPc = "call"
    /\ pinOpts' = pinOptions
    /\ pin' = <<>>
    /\ attempts' = 0
    /\ pinPc' = "loop"
    /\ UNCHANGED <<pinOptions, pinDepth, pinResult>>
    /\ UNCHANGED <<drew, notPin>>

\* while (pin.length < opts.length && attempts < maxAttempts)
PinLoopGuard == Len(pin) < pinOpts.length /\ attempts < maxAttempts

\* One turn of the loop: draw a digit, reject it or push it.
PinDraw ==
    /\ pinPc = "loop"
    /\ PinLoopGuard
    /\ \E r \in getSecureRandomInt(Len(digits)) :
        LET digit == CharAt(digits, r)
        IN  IF RejectedAsRepeat(pinOpts, pin, digit)
                \/ RejectedAsSequential(pinOpts, pin, digit)
            THEN /\ attempts' = attempts + 1
                 /\ pin' = pin
            ELSE /\ pin' = Append(pin, digit)
                 /\ attempts' = 0
    /\ UNCHANGED <<pinOptions, pinOpts, pinDepth, pinPc, pinResult>>
    /\ Drew(Len(digits))
    /\ UNCHANGED notPin

\* if (pin.length < opts.length) return generatePIN({ ...opts, noSequentialDigits: false });
\* the nested call starts with an empty pin and a fresh attempt counter.
PinFallback ==
    /\ pinPc = "loop"
    /\ ~PinLoopGuard
    /\ Len(pin) < pinOpts.length
    /\ pinDepth < MaxCallDepth
    /\ pinOpts' = Relaxed(pinOpts)
    /\ pin' = <<>>
    /\ attempts' = 0
    /\ pinDepth' = pinDepth + 1
    /\ UNCHANGED <<pinOptions, pinPc, pinResult>>
    /\ UNCHANGED <<drew, notPin>>

\* The same statement with the call stack used up: the nested call raises
\* a RangeError and no PIN is returned.
PinStackOverflow ==
    /\ pinPc = "loop"
    /\ ~PinLoopGuard
    /\ Len(pin) < pinOpts.length
    /\ pinDepth >= MaxCallDepth
    /\ pinPc' = "overflow"
    /\ UNCHANGED <<pinOptions, pinOpts, pin, attempts, pinDepth, pinResult>>
    /\ UNCHANGED <<drew, notPin>>

\* return pin.join('');
PinReturn ==
    /\ pinPc = "loop"
    /\ ~PinLoopGuard
    /\ ~(Len(pin) < pinOpts.length)
    /\ pinResult' = Join(pin)
    /\ pinPc' = "returned"
    /\ UNCHANGED <<pinOptions, pinOpts, pin, attempts, pinDepth>>
    /\ UNCHANGED <<drew, notPin>>

\* crypto.getRandomValues raises; generatePIN has no handler.
PinThrow ==
    /\ pinPc = "loop"
    /\ PinLoopGuard
    /\ Throws(Len(digits))
    /\ pinPc' = "threw"
    /\ UNCHANGED <<pinOptions, pinOpts, pin, attempts, pinDepth, pinResult>>
    /\ UNCHANGED <<drew, notPin>>

PinNext ==
    \/ PinCall \/ PinDraw \/ PinFallback \/ PinStackOverflow \/ PinReturn \/ PinThrow

\* Length: 4-12 digits, two more than there are digits at the top.
PinMinLength == 4

PinOptions ==
    [length : PinMinLength..(NumDigits + 2),
     noRepeatedDigits : BOOLEAN, noSequentialDigits : BOOLEAN]

(***************************************************************************)
(* Properties of generatePIN.                                              *)
(***************************************************************************)
\* C9: generatePIN returns a PIN of the requested length after at most one
\* fallback: the call the fallback makes never makes another one.
C9_AtMostOneFallback ==
    /\ pinDepth <= 1
    /\ pinPc # "overflow"
    /\ pinPc = "returned" => Len(pinResult) = pinOptions.length

\* C10: under noRepeatedDigits no digit occurs twice in a PIN returned, and
\* every nested call runs with the caller's noRepeatedDigits and length.
C10_NoRepeatedDigit ==
    /\ (pinPc = "returned" /\ pinOptions.noRepeatedDigits) => NoDuplicates(pinResult)
    /\ pinPc \notin {"idle", "call"} =>
        /\ pinOpts.noRepeatedDigits = pinOptions.noRepeatedDigits
        /\ pinOpts.length = pinOptions.length

\* A PIN returned by the call the fallback made, both constraints requested.
C10_Witness ==
    /\ pinPc = "returned"
    /\ pinOptions.noRepeatedDigits /\ pinOptions.noSequentialDigits
    /\ pinDepth = 1

\* C11: a PIN returned under noSequentialDigits without the fallback holds
\* no three consecutive digits stepping by +1, +1 or by -1, -1.
C11_NoSequentialRun ==
    (pinPc = "returned" /\ pinOptions.noSequentialDigits /\ pinDepth = 0) =>
        \A i \in 1..(Len(pinResult) - 2) :
            LET diff1 == parseInt(pinResult[i + 1]) - parseInt(pinResult[i])
                diff2 == parseInt(pinResult[i + 2]) - parseInt(pinResult[i + 1])
            IN  ~(diff1 = 1 /\ diff2 = 1) /\ ~(diff1 = -1 /\ diff2 = -1)

\* Such a PIN with two neighbouring steps of size one in opposite
\* directions: the digit passed the sequence test after a step.
C11_Witness ==
    /\ pinPc = "returned" /\ pinOptions.noSequentialDigits /\ pinDepth = 0
    /\ \E i \in 1..(Len(pinResult) - 2) :
        /\ Abs(parseInt(pinResult[i + 1]) - parseInt(pinResult[i])) = 1
        /\ Abs(parseInt(pinResult[i + 2]) - parseInt(pinResult[i + 1])) = 1

\* digit after the last two digits of p makes three digits stepping +1, +1
\* or -1, -1.
EndsRunOfThree(p, digit) ==
    /\ Len(p) >= 2
    /\ LET a == parseInt(p[Len(p) - 1])
           b == parseInt(p[Len(p)])
           c == parseInt(digit)
       IN  (b - a = 1 /\ c - b = 1) \/ (b - a = -1 /\ c - b = -1)

\* C26: in a call with noSequentialDigits the sequence test rejects a
\* candidate exactly when it ends such a run of three; and wherever the loop
\* stands, every digit that ends no run (and is no repeat under
\* noRepeatedDigits) can be the next digit pushed, so every PIN free of runs
\* and repeats can be built.
C26_RejectsExactlyRunsOfThree ==
    (pinPc = "loop" /\ PinLoopGuard) =>
        \A d \in Range(digits) :
            /\ pinOpts.noSequentialDigits =>
                  (RejectedAsSequential(pinOpts, pin, d) <=> EndsRunOfThree(pin, d))
            /\ ~pinOpts.noSequentialDigits => ~RejectedAsSequential(pinOpts, pin, d)
            /\ (/\ cryptoOK
                /\ ~(pinOpts.noSequentialDigits /\ EndsRunOfThree(pin, d))
                /\ ~(pinOpts.noRepeatedDigits /\ d \in Range(pin)))
                  => ENABLED (PinDraw /\ pin' = Append(pin, d))

\* A PIN returned under noSequentialDigits that goes up a step and then
\* down a step twice over: ascending and descending pairs, no run.
C26_Witness ==
    /\ pinPc = "returned" /\ pinOptions.noSequentialDigits /\ pinDepth = 0
    /\ pinResult = <<"0", "1", "0", "1">>

(***************************************************************************)
(* Generator.generateBulk: count calls of generatePassword.                *)
(***************************************************************************)
BulkIdle ==
    /\ bulkCount = 0
    /\ passwords = <<>>
    /\ bulkPc = "idle"
    /\ bulkResult = None

\* The state at the call generateBulk(count, o): const passwords = [].
BulkCalled(count, o) ==
    /\ bulkCount = count
    /\ passwords = <<>>
    /\ bulkPc = "loop"
    /\ bulkResult = None
    /\ options = o
    /\ opts = None
    /\ charPool = <<>>
    /\ requiredChars = <<>>
    /\ password = <<>>
    /\ usedChars = {}
    /\ availablePool = <<>>
    /\ shuffled = <<>>
    /\ shI = 0
    /\ pwPc = "idle"
    /\ pwResult = None
    /\ pwCalls = NoCalls

\* for (let i = 0; i < count; i++) generatePassword(options) is called ...
BulkCallPassword ==
    /\ bulkPc = "loop"
    /\ pwPc = "idle"
    /\ Len(passwords) < bulkCount
    /\ pwPc' = "call"
    /\ UNCHANGED <<options, opts, charPool, requiredChars, password, usedChars,
                   availablePool, shuffled, shI, pwResult, pwCalls>>
    /\ UNCHANGED <<bulkCount, passwords, bulkPc, bulkResult>>
    /\ UNCHANGED <<drew, notPwBulk>>

\* ... and passwords.push(its result); its locals are gone.
BulkPush ==
    /\ bulkPc = "loop"
    /\ pwPc = "returned"
    /\ passwords' = Append(passwords, pwResult)
    /\ opts' = None
    /\ charPool' = <<>>
    /\ requiredChars' = <<>>
    /\ password' = <<>>
    /\ usedChars' = {}
    /\ availablePool' = <<>>
    /\ shuffled' = <<>>
    /\ shI' = 0
    /\ pwPc' = "idle"
    /\ pwResult' = None
    /\ pwCalls' = NoCalls
    /\ UNCHANGED <<options, bulkCount, bulkPc, bulkResult>>
    /\ UNCHANGED <<drew, notPwBulk>>

\* A loop that stops one password short (i < count - 1).
BulkReturnEarly ==
    /\ bulkPc = "loop"
    /\ pwPc = "idle"
    /\ ~(Len(passwords) < bulkCount - 1)
    /\ bulkResult' = passwords
    /\ bulkPc' = "returned"
    /\ UNCHANGED <<bulkCount, passwords>>
    /\ UNCHANGED <<drew, pwVars, notPwBulk>>

\* return passwords;
BulkReturn ==
    /\ bulkPc = "loop"
    /\ pwPc = "idle"
    /\ ~(Len(passwords) < bulkCount)
    /\ bulkResult' = passwords
    /\ bulkPc' = "returned"
    /\ UNCHANGED <<bulkCount, passwords>>
    /\ UNCHANGED <<drew, pwVars, notPwBulk>>

\* An exception of generatePassword leaves generateBulk, which has no handler.
BulkThrow ==
    /\ bulkPc = "loop"
    /\ pwPc = "threw"
    /\ bulkPc' = "threw"
    /\ UNCHANGED <<bulkCount, passwords, bulkResult>>
    /\ UNCHANGED <<drew, pwVars, notPwBulk>>

BulkNext == BulkCallPassword \/ BulkPush \/ BulkReturn \/ BulkThrow

(***************************************************************************)
(* UsernameGenerator.  The word lists and character sets are written out   *)
(* as in the source; the model draws from their first ListKeep entries.    *)
(***************************************************************************)
Take(s, n) == SubSeq(s, 1, IF n < Len(s) THEN n ELSE Len(s))

adjectives ==
    Take(<<<<"s", "w", "i", "f", "t">>, <<"b", "o", "l", "d">>,
           <<"c", "a", "l", "m">>, <<"d", "a", "r", "k">>,
           <<"e", "p", "i", "c">>, <<"f", "a", "s", "t">>,
           <<"g", "l", "a", "d">>, <<"k", "e", "e", "n">>,
           <<"l", "o", "u", "d">>, <<"m", "i", "l", "d">>,
           <<"n", "e", "a", "t">>, <<"p", "u", "r", "e">>,
           <<"r", "a", "r", "e">>, <<"s", "a", "f", "e">>,
           <<"t", "r", "u", "e">>, <<"w", "a", "r", "m">>,
           <<"w", "i", "s", "e">>, <<"c", "o", "o", "l">>,
           <<"f", "r", "e", "e">>, <<"k", "i", "n", "d">>,
           <<"b", "r", "a", "v", "e">>, <<"q", "u", "i", "c", "k">>,
           <<"s", "h", "a", "r", "p">>, <<"s", "m", "a", "r", "t">>,
           <<"r", "o", "y", "a", "l">>, <<"n", "o", "b", "l", "e">>,
           <<"m", "a", "g", "i", "c">>, <<"c", "y", "b", "e", "r">>,
           <<"c", "o", "s", "m", "i", "c">>, <<"n", "i", "n", "j", "a">>,
           <<"s", "u", "p", "e", "r">>, <<"u", "l", "t", "r", "a">>,
           <<"m", "e", "g", "a">>, <<"h", "y", "p", "e", "r">>,
           <<"a", "l", "p", "h", "a">>, <<"o", "m", "e", "g", "a">>,
           <<"p", "r", "i", "m", "e">>, <<"e", "l", "i", "t", "e">>,
           <<"l", "u", "c", "k", "y">>, <<"h", "a", "p", "p", "y">>,
           <<"s", "i", "l", "e", "n", "t">>, <<"s", "h", "a", "d", "o", "w">>,
           <<"g", "o", "l", "d", "e", "n">>, <<"s", "i", "l", "v", "e", "r">>,
           <<"c", "r", "y", "s", "t", "a", "l">>,
           <<"p", "h", "a", "n", "t", "o", "m">>,
           <<"m", "y", "s", "t", "i", "c">>,
           <<"a", "n", "c", "i", "e", "n", "t">>,
           <<"d", "i", "g", "i", "t", "a", "l">>,
           <<"e", "l", "e", "c", "t", "r", "i", "c">>,
           <<"q", "u", "a", "n", "t", "u", "m">>,
           <<"s", "t", "e", "l", "l", "a", "r">>,
           <<"a", "t", "o", "m", "i", "c">>, <<"s", "o", "n", "i", "c">>>>, ListKeep)

nouns ==
    Take(<<<<"w", "o", "l", "f">>, <<"h", "a", "w", "k">>,
           <<"l", "i", "o", "n">>, <<"b", "e", "a", "r">>, <<"f", "o", "x">>,
           <<"o", "w", "l">>, <<"t", "i", "g", "e", "r">>,
           <<"e", "a", "g", "l", "e">>, <<"d", "r", "a", "g", "o", "n">>,
           <<"p", "h", "o", "e", "n", "i", "x">>,
           <<"k", "n", "i", "g", "h", "t">>, <<"w", "i", "z", "a", "r", "d">>,
           <<"n", "i", "n", "j", "a">>, <<"h", "u", "n", "t", "e", "r">>,
           <<"r", "i", "d", "e", "r">>, <<"p", "i", "l", "o", "t">>,
           <<"r", "a", "n", "g", "e", "r">>,
           <<"w", "a", "r", "r", "i", "o", "r">>,
           <<"g", "u", "a", "r", "d", "i", "a", "n">>,
           <<"s", "t", "o", "r", "m">>, <<"f", "l", "a", "m", "e">>,
           <<"f", "r", "o", "s", "t">>, <<"s", "p", "a", "r", "k">>,
           <<"b", "l", "a", "d", "e">>, <<"s", "h", "i", "e", "l", "d">>,
           <<"a", "r", "r", "o", "w">>, <<"s", "t", "a", "r">>,
           <<"m", "o", "o", "n">>, <<"s", "u", "n">>,
           <<"c", "o", "d", "e", "r">>, <<"h", "a", "c", "k", "e", "r">>,
           <<"g", "a", "m", "e", "r">>, <<"p", "l", "a", "y", "e", "r">>,
           <<"m", "a", "s", "t", "e", "r">>, <<"c", "h", "i", "e", "f">>,
           <<"c", "a", "p", "t", "a", "i", "n">>,
           <<"l", "e", "g", "e", "n", "d">>, <<"h", "e", "r", "o">>,
           <<"s", "h", "a", "d", "o", "w">>,
           <<"p", "h", "a", "n", "t", "o", "m">>,
           <<"s", "p", "i", "r", "i", "t">>, <<"g", "h", "o", "s", "t">>,
           <<"r", "a", "v", "e", "n">>, <<"c", "o", "b", "r", "a">>,
           <<"v", "i", "p", "e", "r">>, <<"p", "a", "n", "t", "h", "e", "r">>,
           <<"f", "a", "l", "c", "o", "n">>>>, ListKeep)

consonants ==
    Take(<<"b", "c", "d", "f", "g", "h", "j", "k", "l", "m", "n", "p", "q", "r",
           "s", "t", "v", "w", "x", "y", "z">>, ListKeep)

vowels == Take(<<"a", "e", "i", "o", "u">>, ListKeep)

\* The charset of generateRandom.
randomCharset == Take(LOWERCASE \o UPPERCASE \o NUMBERS, ListKeep)

firstNames ==
    Take(<<<<"a", "l", "e", "x">>, <<"s", "a", "m">>,
           <<"j", "o", "r", "d", "a", "n">>, <<"t", "a", "y", "l", "o", "r">>,
           <<"m", "o", "r", "g", "a", "n">>, <<"c", "a", "s", "e", "y">>,
           <<"r", "i", "l", "e", "y">>, <<"d", "r", "e", "w">>,
           <<"j", "a", "m", "i", "e">>, <<"q", "u", "i", "n", "n">>>>, ListKeep)

lastNames ==
    Take(<<<<"s", "m", "i", "t", "h">>, <<"j", "o", "n", "e", "s">>,
           <<"w", "i", "l", "s", "o", "n">>, <<"t", "a", "y", "l", "o", "r">>,
           <<"b", "r", "o", "w", "n">>, <<"d", "a", "v", "i", "s">>,
           <<"m", "i", "l", "l", "e", "r">>,
           <<"a", "n", "d", "e", "r", "s", "o", "n">>,
           <<"j", "a", "c", "k", "s", "o", "n">>, <<"w", "h", "i", "t", "e">>>>, ListKeep)

\* String.prototype.toUpperCase on one character.
toUpperCase(c) ==
    IF c \in Range(LOWERCASE)
    THEN UPPERCASE[CHOOSE i \in 1..Len(LOWERCASE) : LOWERCASE[i] = c]
    ELSE c

\* str.charAt(0).toUpperCase() + str.slice(1)
capitalize(str) == IF str = <<>> THEN <<>> ELSE <<toUpperCase(Head(str))>> \o Tail(str)

\* Number.prototype.toString for n >= 0, as applied by string concatenation.
RECURSIVE DecimalString(_)
DecimalString(n) ==
    IF n < 10 THEN <<NUMBERS[n + 1]>>
    ELSE DecimalString(n \div 10) \o <<NUMBERS[(n % 10) + 1]>>

\* const x = options.x || dflt
OrDefault(x, dflt) == IF x = 0 THEN dflt ELSE x

\* n copies of the sequence s, one after the other.
RECURSIVE Repeat(_, _)
Repeat(s, n) == IF n <= 0 THEN <<>> ELSE s \o Repeat(s, n - 1)

\* The switch of generate: the recipe a style selector runs.
Dispatch(style) ==
    CASE style = "adjectiveNoun" -> "generateAdjectiveNoun"
      [] style = "random" -> "generateRandom"
      [] style = "pronounceable" -> "generatePronounceable"
      [] style = "wordNumbers" -> "generateWordNumbers"
      [] style = "gaming" -> "generateGaming"
      [] style = "professional" -> "generateProfessional"
      [] OTHER -> "generateAdjectiveNoun"

\* The arguments of the getSecureRandomInt calls of a recipe, in call order.
DrawMaxes(recipe, o) ==
    CASE recipe = "generateAdjectiveNoun" ->
            <<Len(adjectives), Len(nouns)>> \o (IF o.includeNumber THEN <<100>> ELSE <<>>)
      [] recipe = "generateRandom" ->
            Repeat(<<Len(randomCharset)>>, OrDefault(o.length, 8))
      [] recipe = "generatePronounceable" ->
            Repeat(<<Len(consonants), Len(vowels)>>, OrDefault(o.syllables, 3))
                \o (IF o.includeNumber THEN <<100>> ELSE <<>>)
      [] recipe = "generateWordNumbers" ->
            <<Len(nouns)>> \o Repeat(<<10>>, OrDefault(o.digits, 4))
      [] recipe = "generateGaming" ->
            <<Len(adjectives), Len(nouns)>> \o (IF o.includeNumber THEN <<100>> ELSE <<>>)
      [] recipe = "generateProfessional" ->
            <<Len(firstNames), Len(lastNames), 3>>

\* The characters d[from..] select from the strings of sets, taken in turn.
RECURSIVE Picked(_, _, _)
Picked(sets, d, from) ==
    IF from > Len(d) THEN <<>>
    ELSE <<sets[((from - 1) % Len(sets)) + 1][d[from] + 1]>> \o Picked(sets, d, from + 1)

RECURSIVE DigitsOf(_, _)
DigitsOf(d, from) ==
    IF from > Len(d) THEN <<>> ELSE DecimalString(d[from]) \o DigitsOf(d, from + 1)

\* The string a recipe returns after the draws d.
Assemble(recipe, o, d) ==
    CASE recipe = "generateAdjectiveNoun" ->
            capitalize(adjectives[d[1] + 1]) \o capitalize(nouns[d[2] + 1])
                \o (IF o.includeNumber THEN DecimalString(d[3]) ELSE <<>>)
      [] recipe = "generateRandom" -> Picked(<<randomCharset>>, d, 1)
      [] recipe = "generatePronounceable" ->
            LET n == 2 * OrDefault(o.syllables, 3)
            IN  capitalize(Picked(<<consonants, vowels>>, SubSeq(d, 1, n), 1))
                    \o (IF o.includeNumber THEN DecimalString(d[n + 1]) ELSE <<>>)
      [] recipe = "generateWordNumbers" -> nouns[d[1] + 1] \o DigitsOf(d, 2)
      [] recipe = "generateGaming" ->
            (IF o.includePrefix THEN <<"x", "X">> ELSE <<>>)
                \o capitalize(adjectives[d[1] + 1]) \o capitalize(nouns[d[2] + 1])
                \o (IF o.includeNumber THEN DecimalString(d[3]) ELSE <<>>)
                \o (IF o.includeSuffix THEN <<"X", "x">> ELSE <<>>)
      [] recipe = "generateProfessional" ->
            LET first == firstNames[d[1] + 1]
                last == lastNames[d[2] + 1]
            IN  CASE d[3] = 0 -> first \o <<".">> \o last
                  [] d[3] = 1 -> <<first[1]>> \o last
                  [] d[3] = 2 -> first \o <<last[1]>>
                  [] OTHER -> first \o last

UnIdle ==
    /\ unStyle = None
    /\ unOptions = None
    /\ unRecipe = None
    /\ unDraws = <<>>
    /\ unPc = "idle"
    /\ unResult = None

\* The state at the call UsernameGenerator.generate(style, o).
UnCalled(style, o) ==
    /\ unStyle = style
    /\ unOptions = o
    /\ unRecipe = None
    /\ unDraws = <<>>
    /\ unPc = "call"
    /\ unResult = None

\* switch (style) { ... }
UnCall ==
    /\ unPc = "call"
    /\ unRecipe' = Dispatch(unStyle)
    /\ unPc' = "draw"
    /\ UNCHANGED <<unStyle, unOptions, unDraws, unResult>>
    /\ UNCHANGED <<drew, notUn>>

\* The next getSecureRandomInt call of the recipe.
UnDrawMax ==
    IF unPc = "draw" /\ Len(unDraws) < Len(DrawMaxes(unRecipe, unOptions))
    THEN DrawMaxes(unRecipe, unOptions)[Len(unDraws) + 1]
    ELSE 0

UnDraw ==
    /\ unPc = "draw"
    /\ Len(unDraws) < Len(DrawMaxes(unRecipe, unOptions))
    /\ \E r \in getSecureRandomInt(UnDrawMax) : unDraws' = Append(unDraws, r)
    /\ Drew(UnDrawMax)
    /\ UNCHANGED <<unStyle, unOptions, unRecipe, unPc, unResult>>
    /\ UNCHANGED notUn

UnReturn ==
    /\ unPc = "draw"
    /\ Len(unDraws) = Len(DrawMaxes(unRecipe, unOptions))
    /\ unResult' = Assemble(unRecipe, unOptions, unDraws)
    /\ unPc' = "returned"
    /\ UNCHANGED <<unStyle, unOptions, unRecipe, unDraws>>
    /\ UNCHANGED <<drew, notUn>>

\* crypto.getRandomValues raises; no recipe and no caller handles it.
UnThrow ==
    /\ unPc = "draw"
    /\ Throws(UnDrawMax)
    /\ unPc' = "threw"
    /\ UNCHANGED <<unStyle, unOptions, unRecipe, unDraws, unResult>>
    /\ UNCHANGED <<drew, notUn>>

UnNext == UnCall \/ UnDraw \/ UnReturn \/ UnThrow

\* The style selectors: the six of the switch and the documented custom word.
Styles == {"adjectiveNoun", "random", "pronounceable", "wordNumbers", "gaming",
           "professional", "custom"}

\* Options: absent numeric options are 0 (falsy), absent flags FALSE.
UnNoOptions ==
    [includeNumber |-> FALSE, includePrefix |-> FALSE, includeSuffix |-> FALSE,
     length |-> 0, syllables |-> 0, digits |-> 0]

UsernameOptions ==
    {[UnNoOptions EXCEPT !.includeNumber = n, !.includePrefix = x, !.includeSuffix = x] :
        n \in BOOLEAN, x \in BOOLEAN}
    \cup {[UnNoOptions EXCEPT !.length = k, !.syllables = k, !.digits = k] :
            k \in 1..MaxUnSize}

\* C21: a documented style selector other than adjective+noun never runs the
\* adjective+noun recipe; an unrecognised selector does.
C21_OwnRecipePerStyle ==
    unRecipe # None =>
        /\ unStyle \in Styles \ {"adjectiveNoun"} => unRecipe # "generateAdjectiveNoun"
        /\ unStyle \notin Styles => unRecipe = "generateAdjectiveNoun"

(***************************************************************************)
(* Generator.generatePassphrase.  EFF_WORDLIST is written out from the     *)
(* first entries of the EFF list; the model keeps ListKeep of them.        *)
(***************************************************************************)
EFF_WORDLIST ==
    IF wordlist = "loaded"
    THEN Take(<< <<"a", "c", "i", "d">>, <<"a", "c", "o", "r", "n">>,
                 <<"a", "c", "r", "e">>, <<"a", "c", "t", "s">> >>, ListKeep)
    ELSE <<>>

\* A wordlist test that forgets the empty list.
WordlistUndefinedOnly == wordlist = "undefined"

\* typeof EFF_WORDLIST === 'undefined' || EFF_WORDLIST.length === 0
WordlistMissing == wordlist = "undefined" \/ Len(EFF_WORDLIST) = 0

\* 'error-loading-wordlist'
SENTINEL ==
    <<"e", "r", "r", "o", "r", "-", "l", "o", "a", "d", "i", "n", "g", "-",
      "w", "o", "r", "d", "l", "i", "s", "t">>

\* The switch on opts.capitalize, applied to one word.
Capitalized(mode, word) ==
    CASE mode = "first" -> capitalize(word)
      [] mode = "all" -> [i \in 1..Len(word) |-> toUpperCase(word[i])]
      [] OTHER -> word

\* words.push(token): the token always goes last.
InsertAtEnd(arr, position, token) == Append(arr, token)

\* words.splice(position, 0, token)
InsertAt(arr, position, token) ==
    SubSeq(arr, 1, position) \o <<token>> \o SubSeq(arr, position + 1, Len(arr))

\* Array.prototype.join(separator) on an array of strings.
RECURSIVE JoinWith(_, _)
JoinWith(arr, separator) ==
    IF arr = <<>> THEN <<>>
    ELSE IF Len(arr) = 1 THEN Head(arr)
    ELSE Head(arr) \o <<separator>> \o JoinWith(Tail(arr), separator)

PpIdle ==
    /\ wordlist = "loaded"
    /\ ppOptions = None
    /\ ppDraws = <<>>
    /\ ppPc = "idle"
    /\ ppResult = None
    /\ ppWords = <<>>

\* The state at the call generatePassphrase(o) with the wordlist in state w.
PpCalled(w, o) ==
    /\ wordlist = w
    /\ ppOptions = o
    /\ ppDraws = <<>>
    /\ ppPc = "call"
    /\ ppResult = None
    /\ ppWords = <<>>

\* const opts = { ...defaults, ...options }; the wordlist test.
PpCall ==
    /\ ppPc = "call"
    /\ IF WordlistMissing
       THEN /\ ppResult' = SENTINEL
            /\ ppPc' = "returned"
       ELSE /\ ppResult' = ppResult
            /\ ppPc' = "words"
    /\ UNCHANGED <<wordlist, ppOptions, ppDraws, ppWords>>
    /\ UNCHANGED <<drew, notPp>>

\* One turn of the for loop: words.push(EFF_WORDLIST[getSecureRandomInt(...)]).
PpWord ==
    /\ ppPc = "words"
    /\ Len(ppDraws) < ppOptions.wordCount
    /\ \E r \in getSecureRandomInt(Len(EFF_WORDLIST)) : ppDraws' = Append(ppDraws, r)
    /\ Drew(Len(EFF_WORDLIST))
    /\ UNCHANGED <<wordlist, ppOptions, ppPc, ppResult, ppWords>>
    /\ UNCHANGED notPp

\* The loop is over: capitalization, the number if requested, the join.
\* A word read from an empty list is undefined: charAt and toUpperCase on
\* it raise a TypeError, and join renders it as the empty string.
PpFinish ==
    /\ ppPc = "words"
    /\ Len(ppDraws) = ppOptions.wordCount
    /\ IF Len(EFF_WORDLIST) = 0 /\ ppOptions.capitalize \in {"first", "all"}
       THEN /\ ppPc' = "threw"
            /\ UNCHANGED <<ppResult, ppWords, drew>>
       ELSE LET words == [i \in 1..Len(ppDraws) |->
                            IF Len(EFF_WORDLIST) = 0 THEN <<>>
                            ELSE Capitalized(ppOptions.capitalize,
                                             EFF_WORDLIST[ppDraws[i] + 1])]
            IN  /\ ppPc' = "returned"
                /\ IF ppOptions.includeNumber
                   THEN /\ \E position \in getSecureRandomInt(Len(words) + 1),
                              number \in getSecureRandomInt(100) :
                             ppWords' = InsertAt(words, position, DecimalString(number))
                        /\ drew' = TRUE
                   ELSE /\ ppWords' = words
                        /\ drew' = drew
                /\ ppResult' = JoinWith(ppWords', ppOptions.separator)
    /\ UNCHANGED <<wordlist, ppOptions, ppDraws>>
    /\ UNCHANGED notPp

\* crypto.getRandomValues raises at a word draw or at the number's draws.
PpThrow ==
    /\ ppPc = "words"
    /\ IF Len(ppDraws) < ppOptions.wordCount
       THEN Throws(Len(EFF_WORDLIST))
       ELSE ppOptions.includeNumber /\ Throws(100)
    /\ ppPc' = "threw"
    /\ UNCHANGED <<wordlist, ppOptions, ppDraws, ppResult, ppWords>>
    /\ UNCHANGED <<drew, notPp>>

PpNext == PpCall \/ PpWord \/ PpFinish \/ PpThrow

\* Word count: 3-8 words, cut to MaxWords; separator: hyphen, underscore,
\* space, number (a digit); capitalize: none, first letter, ALL CAPS.
PassphraseOptions ==
    [wordCount : 1..MaxWords, separator : {"-", "_", " "} \cup Range(CHARS_numbers),
     capitalize : {"none", "first", "all"}, includeNumber : BOOLEAN]

(***************************************************************************)
(* Properties of generatePassphrase.                                       *)
(***************************************************************************)
\* str.split(separator) for a one-character separator.
RECURSIVE SplitFrom(_, _, _)
SplitFrom(str, separator, token) ==
    IF str = <<>> THEN <<token>>
    ELSE IF Head(str) = separator
         THEN <<token>> \o SplitFrom(Tail(str), separator, <<>>)
         ELSE SplitFrom(Tail(str), separator, Append(token, Head(str)))

Split(str, separator) == SplitFrom(str, separator, <<>>)

\* str.toLowerCase()
toLowerCase(str) ==
    [i \in 1..Len(str) |->
        IF str[i] \in Range(UPPERCASE)
        THEN LOWERCASE[CHOOSE k \in 1..Len(UPPERCASE) : UPPERCASE[k] = str[i]]
        ELSE str[i]]

IsNumberToken(token) == token # <<>> /\ \A i \in 1..Len(token) : token[i] \in Range(NUMBERS)

PpReturnedPhrase == ppPc = "returned" /\ wordlist = "loaded"

\* C12: with a loaded wordlist the passphrase splits by its separator into
\* wordCount tokens (one more with includeNumber), and every token that is
\* not a number is a wordlist entry once lower-cased.
C12_PassphraseShape ==
    PpReturnedPhrase =>
        LET tokens == Split(ppResult, ppOptions.separator)
        IN  /\ Len(tokens) = ppOptions.wordCount
                              + (IF ppOptions.includeNumber THEN 1 ELSE 0)
            /\ \A i \in 1..Len(tokens) :
                  \/ IsNumberToken(tokens[i])
                  \/ toLowerCase(tokens[i]) \in Range(EFF_WORDLIST)

\* The words drawn, capitalized as asked, in the order drawn.
PpCapitalizedWords ==
    [i \in 1..Len(ppDraws) |->
        Capitalized(ppOptions.capitalize, EFF_WORDLIST[ppDraws[i] + 1])]

\* C27: with includeNumber the array joined holds the words in their order
\* and capitalization plus exactly one number token, of a value in 0..99
\* (one or two digits, no leading zero), and every index 0..wordCount can
\* be its place; without includeNumber it holds the words only.
C27_OneNumberTokenAnywhere ==
    /\ PpReturnedPhrase =>
          LET numberAt == {i \in 1..Len(ppWords) : IsNumberToken(ppWords[i])}
          IN  IF ppOptions.includeNumber
              THEN /\ Len(ppWords) = ppOptions.wordCount + 1
                   /\ Cardinality(numberAt) = 1
                   /\ \A i \in numberAt :
                         /\ Len(ppWords[i]) <= 2
                         /\ Len(ppWords[i]) = 2 => ppWords[i][1] # "0"
                         /\ RemoveAt(ppWords, i) = PpCapitalizedWords
              ELSE /\ ppWords = PpCapitalizedWords
                   /\ numberAt = {}
    /\ (/\ ppPc = "words" /\ wordlist = "loaded" /\ cryptoOK
        /\ Len(ppDraws) = ppOptions.wordCount /\ ppOptions.includeNumber)
          => \A position \in 0..ppOptions.wordCount :
                ENABLED (PpFinish /\ IsNumberToken(ppWords'[position + 1]))

\* A passphrase of two words with the number between them.
C27_Witness ==
    /\ PpReturnedPhrase /\ ppOptions.includeNumber /\ ppOptions.wordCount = 2
    /\ Len(ppWords) = 3 /\ IsNumberToken(ppWords[2])
    /\ ppOptions.capitalize = "first"

\* C13: with the wordlist undefined or empty, generatePassphrase returns the
\* sentinel, raises nothing and draws nothing, whatever the options.
C13_SentinelWithoutWordlist ==
    wordlist # "loaded" =>
        /\ ppPc \in {"idle", "call", "returned"}
        /\ ppPc = "returned" => ppResult = SENTINEL
        /\ ~drew

\* The sentinel returned for an empty list, a number requested and no
\* secure source to draw it from.
C13_Witness ==
    /\ wordlist = "empty" /\ ppPc = "returned" /\ ppResult = SENTINEL
    /\ ppOptions.includeNumber /\ ~cryptoOK

(***************************************************************************)
(* The page (app module): the password form, Generate, Generate Bulk and   *)
(* Download CSV.                                                           *)
(***************************************************************************)
\* No handler has run.
NoCall == [kind |-> "none", allOff |-> FALSE]

AppIdle ==
    /\ ui = None
    /\ appCall = NoCall
    /\ csv = <<>>

\* getPasswordOptions(): the form's fields as an options object.
getPasswordOptions == [f \in DOMAIN ui \ {"bulkCount"} |-> ui[f]]

AllOff(o) == ~o.uppercase /\ ~o.lowercase /\ ~o.numbers /\ ~o.symbols

\* 'Index,Password'
CSVHeader == <<"I", "n", "d", "e", "x", ",", "P", "a", "s", "s", "w", "o", "r", "d">>

\* rows = passwords.map((pwd, i) => `${i + 1},"${pwd}"`);
\* [header, ...rows].join('\n')
toCSV(pwds) ==
    LET rows == [i \in 1..Len(pwds) |->
                    DecimalString(i) \o <<",", "\"">> \o pwds[i] \o <<"\"">>]
    IN  JoinWith(<<CSVHeader>> \o rows, "\n")

\* The Generate handler up to its call of Generator.generatePassword: with
\* all four classes off it sets options.lowercase and ticks the checkbox.
AppGeneratePassword ==
    /\ appCall = NoCall
    /\ pwPc = "idle" /\ bulkPc = "idle"
    /\ LET off == AllOff(getPasswordOptions)
           o == IF off THEN [getPasswordOptions EXCEPT !.lowercase = TRUE]
                ELSE getPasswordOptions
       IN  /\ ui' = IF off THEN [ui EXCEPT !.lowercase = TRUE] ELSE ui
           /\ appCall' = [kind |-> "single", allOff |-> off]
           /\ options' = o
    /\ pwPc' = "call"
    /\ UNCHANGED <<opts, charPool, requiredChars, password, usedChars, availablePool,
                   shuffled, shI, pwResult, pwCalls>>
    /\ UNCHANGED <<csv, bulkVars, drew, notApp>>

\* The Generate Bulk handler up to its call of Generator.generateBulk.
AppGenerateBulk ==
    /\ appCall = NoCall
    /\ pwPc = "idle" /\ bulkPc = "idle"
    /\ appCall' = [kind |-> "bulk", allOff |-> AllOff(getPasswordOptions)]
    /\ options' = getPasswordOptions
    /\ bulkCount' = ui.bulkCount
    /\ bulkPc' = "loop"
    /\ UNCHANGED <<opts, charPool, requiredChars, password, usedChars, availablePool,
                   shuffled, shI, pwPc, pwResult, pwCalls>>
    /\ UNCHANGED <<ui, csv, passwords, bulkResult, drew, notApp>>

\* downloadBulkCSV: if (bulkPasswords.length > 0) Generator.downloadCSV(bulkPasswords)
AppDownloadCSV ==
    /\ appCall.kind = "bulk" /\ bulkPc = "returned"
    /\ csv = <<>>
    /\ Len(bulkResult) > 0
    /\ csv' = toCSV(bulkResult)
    /\ UNCHANGED <<ui, appCall, pwVars, bulkVars, drew, notApp>>

AppNext == AppGeneratePassword \/ AppGenerateBulk \/ AppDownloadCSV \/ PwNext \/ BulkNext

\* The forms the page is used with: one character per password, or two and
\* a bulk count of one; both minimums at zero or at one; a custom symbol
\* set or none.
AppForms ==
    {f \in {[o EXCEPT !.customSymbols = c] @@ [bulkCount |-> n] :
                o \in {q \in PasswordOptions :
                          /\ q.length <= 2
                          /\ q.minNumbers = q.minSymbols /\ q.minNumbers <= 1
                          /\ ~q.noRepeating /\ ~q.excludeBrackets
                          /\ q.customSymbols = <<>>},
                c \in {<<>>, <<"\"", "#">>},
                n \in 1..MaxBulk} :
        f.length = 1 \/ f.bulkCount = 1}

(***************************************************************************)
(* Properties of the page and of bulk generation.                          *)
(***************************************************************************)
\* C14: generateBulk returns exactly count strings, and every string enters
\* the list as the result of a generatePassword call of its own, made with
\* the configuration generateBulk was given.
C14_BulkCountAndOwnCalls ==
    /\ [](bulkPc = "returned" => Len(bulkResult) = bulkCount)
    /\ [][bulkPc = "loop" =>
            /\ options' = options
            /\ passwords' # passwords =>
                /\ pwPc = "returned" /\ pwPc' = "idle"
                /\ passwords' = Append(passwords, pwResult)]_vars

\* MaxBulk passwords returned, the first two different.
C14_Witness ==
    /\ bulkPc = "returned" /\ bulkCount = MaxBulk
    /\ Len(bulkResult) = MaxBulk
    /\ bulkResult[1] # bulkResult[2]

\* The value of a quoted field, read from behind its opening quote: a
\* doubled quote stands for a quote, a single one must end the field.
RECURSIVE Unquoted(_)
Unquoted(str) ==
    IF str = <<>> THEN [ok |-> FALSE, value |-> <<>>]
    ELSE IF Head(str) # "\""
         THEN LET r == Unquoted(Tail(str))
              IN  [ok |-> r.ok, value |-> <<Head(str)>> \o r.value]
    ELSE IF Len(str) = 1 THEN [ok |-> TRUE, value |-> <<>>]
    ELSE IF str[2] = "\""
         THEN LET r == Unquoted(SubSeq(str, 3, Len(str)))
              IN  [ok |-> r.ok, value |-> <<"\"">> \o r.value]
    ELSE [ok |-> FALSE, value |-> <<>>]

\* One line of two-column delimited text: index, comma, quoted value.
ParsedRow(line) ==
    IF \E c \in 1..(Len(line) - 1) : line[c] = "," /\ line[c + 1] = "\""
    THEN LET c == CHOOSE c \in 1..(Len(line) - 1) :
                    /\ line[c] = "," /\ line[c + 1] = "\""
                    /\ \A d \in 1..(c - 1) : line[d] # ","
             r == Unquoted(SubSeq(line, c + 2, Len(line)))
         IN  [ok |-> r.ok, index |-> SubSeq(line, 1, c - 1), value |-> r.value]
    ELSE [ok |-> FALSE, index |-> <<>>, value |-> <<>>]

\* C15: the text toCSV produced for a bulk list parses, as two-column quoted
\* delimited text under its header, into the same passwords in the same
\* order, numbered from 1.
C15_CSVRoundTrip ==
    csv # <<>> =>
        LET lines == Split(csv, "\n")
        IN  /\ Head(lines) = CSVHeader
            /\ Len(lines) = Len(bulkResult) + 1
            /\ \A i \in 1..Len(bulkResult) :
                  LET row == ParsedRow(lines[i + 1])
                  IN  /\ row.ok
                      /\ row.index = DecimalString(i)
                      /\ row.value = bulkResult[i]

\* C17: after a generation started with all four classes off, by Generate
\* or by Generate Bulk, every password is made of lowercase letters only,
\* and both the options object of the caller and the form have lowercase
\* enabled.
C17_FallbackRecorded ==
    LET made == IF appCall.kind = "single" /\ pwPc = "returned" THEN <<pwResult>>
                ELSE IF appCall.kind = "bulk" /\ bulkPc = "returned" THEN bulkResult
                ELSE <<>>
    IN  (appCall.allOff /\ made # <<>>) =>
            /\ \A i \in 1..Len(made) :
                  \A k \in 1..Len(made[i]) : made[i][k] \in Range(LOWERCASE)
            /\ options.lowercase
            /\ ui.lowercase

(***************************************************************************)
(* The caller's configuration objects.                                     *)
(***************************************************************************)
\* C18: no step of generatePassword, generatePIN or generatePassphrase
\* changes the options object the caller passed, the noRepeating clamp and
\* the PIN fallback included.
C18_CallerOptionsUnchanged ==
    [][/\ pwPc # "idle" => options' = options
       /\ pinPc # "idle" => pinOptions' = pinOptions
       /\ ppPc # "idle" => ppOptions' = ppOptions]_vars

\* A password returned after the clamp shortened the working copy, or a PIN
\* returned by the fallback call running without noSequentialDigits.
C18_Witness ==
    \/ pwPc = "returned" /\ opts.length < options.length
    \/ /\ pinPc = "returned" /\ pinDepth = 1
       /\ pinOptions.noSequentialDigits /\ ~pinOpts.noSequentialDigits

(***************************************************************************)
(* syncSliderInput: a range slider and a number input kept in step.  The   *)
(* two registrations modelled are the password length (callback            *)
(* generatePassword) and the bulk count (callback () => {}); a callback    *)
(* reads the elements and writes neither, so only its name is recorded.    *)
(***************************************************************************)
\* The min and max attributes of the slider and of the number input.
SliderMarkup(pair) ==
    IF pair = "passwordLength"
    THEN [slider |-> [min |-> 4, max |-> 128], input |-> [min |-> 4, max |-> 128]]
    ELSE [slider |-> [min |-> 1, max |-> 100], input |-> [min |-> 1, max |-> 100]]

\* The characters a user types into the number input.
TypedChars == {"-", "1", "9", "a"}

\* Every text of at most MaxTyped typed characters.
TypedTexts == UNION {[1..n -> TypedChars] : n \in 0..MaxTyped}

NaN == [nan |-> TRUE, n |-> 0]

RECURSIVE DigitPrefix(_)
DigitPrefix(str) ==
    IF str = <<>> \/ Head(str) \notin Range(NUMBERS) THEN <<>>
    ELSE <<Head(str)>> \o DigitPrefix(Tail(str))

RECURSIVE DecimalValue(_)
DecimalValue(ds) ==
    IF ds = <<>> THEN 0
    ELSE 10 * DecimalValue(SubSeq(ds, 1, Len(ds) - 1)) + parseInt(ds[Len(ds)])

\* parseInt(str, 10): an optional sign, then the leading digits; NaN without one.
parseInt10(str) ==
    LET neg  == str # <<>> /\ Head(str) = "-"
        ds   == DigitPrefix(IF neg THEN Tail(str) ELSE str)
    IN  IF ds = <<>> THEN NaN
        ELSE [nan |-> FALSE, n |-> IF neg THEN 0 - DecimalValue(ds) ELSE DecimalValue(ds)]

\* String(value) for an integer.
IntString(n) == IF n < 0 THEN <<"-">> \o DecimalString(0 - n) ELSE DecimalString(n)

\* The three corrections with the last one left out.
ClampedBelowOnly(value, min, max) ==
    LET v1 == IF value.nan THEN min ELSE value.n
    IN  IF v1 < min THEN min ELSE v1

\* if (isNaN(value)) value = min; if (value < min) value = min;
\* if (value > max) value = max;
Clamped(value, min, max) ==
    LET v1 == IF value.nan THEN min ELSE value.n
        v2 == IF v1 < min THEN min ELSE v1
    IN  IF v2 > max THEN max ELSE v2

\* The value a range slider keeps when a number is assigned to it.
SliderKeeps(pair, n) ==
    LET r == SliderMarkup(pair).slider
    IN  IF n < r.min THEN r.min ELSE IF n > r.max THEN r.max ELSE n

SyncCallback(pair) == IF pair = "passwordLength" THEN "generatePassword" ELSE "noop"

SyncIdle ==
    sync = [pair |-> "none", slider |-> <<>>, input |-> <<>>,
            event |-> "none", typed |-> <<>>, callback |-> "none"]

\* The user moves the slider to v; the slider's listener runs.
SyncSliderEvent ==
    /\ sync.pair # "none"
    /\ \E v \in SliderMarkup(sync.pair).slider.min..SliderMarkup(sync.pair).slider.max :
          sync' = [sync EXCEPT !.slider = IntString(v),
                               !.input = IntString(v),
                               !.event = "slider",
                               !.typed = <<>>,
                               !.callback = SyncCallback(sync.pair)]
    /\ UNCHANGED <<coreVars, strength, theme, lateVars>>

\* The user leaves the text t in the number input; the input's listener runs.
SyncInputEvent ==
    /\ sync.pair # "none"
    /\ \E t \in TypedTexts :
          LET m     == SliderMarkup(sync.pair).input
              value == Clamped(parseInt10(t), m.min, m.max)
          IN  sync' = [sync EXCEPT !.input = IntString(value),
                                   !.slider = IntString(SliderKeeps(sync.pair, value)),
                                   !.event = "input",
                                   !.typed = t,
                                   !.callback = SyncCallback(sync.pair)]
    /\ UNCHANGED <<coreVars, strength, theme, lateVars>>

SyncNext == SyncSliderEvent \/ SyncInputEvent

\* C19: after a slider event or a number-input event the two values are
\* equal and within the input's [min, max]; a non-numeric entry becomes min.
C19_SliderInputInStep ==
    sync.event # "none" =>
        LET m == SliderMarkup(sync.pair).input
        IN  /\ sync.slider = sync.input
            /\ ~parseInt10(sync.input).nan
            /\ parseInt10(sync.input).n \in m.min..m.max
            /\ (sync.event = "input" /\ parseInt10(sync.typed).nan)
                  => sync.input = IntString(m.min)

\* A number above max was typed and both elements show max.
C19_Witness ==
    /\ sync.event = "input"
    /\ ~parseInt10(sync.typed).nan
    /\ parseInt10(sync.typed).n > SliderMarkup(sync.pair).input.max
    /\ sync.input = IntString(SliderMarkup(sync.pair).input.max)
    /\ sync.slider = sync.input

\* A text without a leading number was typed and both elements show min.
C19_WitnessNaN ==
    /\ sync.event = "input"
    /\ sync.typed # <<>> /\ parseInt10(sync.typed).nan
    /\ sync.input = IntString(SliderMarkup(sync.pair).input.min)
    /\ sync.slider = sync.input

(***************************************************************************)
(* Theme (part_002): the current theme, what the document shows, the       *)
(* value under STORAGE_KEY in localStorage, and the system colour scheme.  *)
(* localStorage may be unavailable: getItem and setItem then throw and     *)
(* the try blocks swallow it.  chosen records that the user has picked a   *)
(* theme with toggle or setTheme, on this page load or an earlier one.     *)
(***************************************************************************)
DARK == "dark"

LIGHT == "light"

\* try { return localStorage.getItem(STORAGE_KEY) } catch (e) { return null }
getSavedTheme(th) == IF th.storageOK THEN th.storage ELSE "null"

\* try { localStorage.setItem(STORAGE_KEY, t) } catch (e) { }
saveTheme(th, t) == IF th.storageOK THEN [th EXCEPT !.storage = t] ELSE th

\* currentTheme, the data-theme attribute and, where the page has one, the
\* theme-color meta element.
applyTheme(th, t) ==
    [th EXCEPT !.currentTheme = t,
               !.dataTheme = t,
               !.metaThemeColor = IF th.metaThemeColor = "absent" THEN "absent"
                                  ELSE IF t = DARK THEN "#000000" ELSE "#ffffff"]

ThemeIdle ==
    theme = [pc |-> "none", currentTheme |-> LIGHT, dataTheme |-> "unset",
             metaThemeColor |-> "absent", storage |-> "null", storageOK |-> TRUE,
             matchMedia |-> FALSE, system |-> LIGHT, chosen |-> FALSE,
             last |-> "none"]

\* Theme.init(): the saved theme or else the system preference is applied and
\* the listener for system changes is registered.
init ==
    /\ theme.pc = "loaded"
    /\ LET savedTheme == getSavedTheme(theme)
           getSystemPreference == IF theme.matchMedia /\ theme.system = DARK
                                  THEN DARK ELSE LIGHT
           initialTheme == IF savedTheme # "null" THEN savedTheme ELSE getSystemPreference
       IN  theme' = [applyTheme(theme, initialTheme) EXCEPT !.pc = "running", !.last = "init"]
    /\ UNCHANGED <<coreVars, strength, sync, lateVars>>

toggle ==
    /\ theme.pc = "running"
    /\ LET newTheme == IF theme.currentTheme = DARK THEN LIGHT ELSE DARK
       IN  theme' = [saveTheme(applyTheme(theme, newTheme), newTheme)
                        EXCEPT !.chosen = TRUE, !.last = "toggle"]
    /\ UNCHANGED <<coreVars, strength, sync, lateVars>>

\* setTheme(t); a value that is neither DARK nor LIGHT is ignored.
setTheme ==
    /\ theme.pc = "running"
    /\ \E t \in {DARK, LIGHT, "auto"} :
          theme' = IF t = DARK \/ t = LIGHT
                   THEN [saveTheme(applyTheme(theme, t), t)
                            EXCEPT !.chosen = TRUE, !.last = "setTheme"]
                   ELSE [theme EXCEPT !.last = "setTheme"]
    /\ UNCHANGED <<coreVars, strength, sync, lateVars>>

\* The system colour scheme changes; the listener registered by init runs.
SystemChange ==
    /\ theme.pc \in {"loaded", "running"}
    /\ theme.matchMedia
    /\ LET matches == theme.system # DARK
           th == [theme EXCEPT !.system = IF matches THEN DARK ELSE LIGHT,
                               !.last = "change"]
       IN  theme' = IF theme.pc = "running" /\ getSavedTheme(th) = "null"
                    THEN applyTheme(th, IF matches THEN DARK ELSE LIGHT)
                    ELSE th
    /\ UNCHANGED <<coreVars, strength, sync, lateVars>>

ThemeNext == init \/ toggle \/ setTheme \/ SystemChange

\* C20: a system change handled after a manual choice leaves the current
\* theme alone; one handled before any manual choice sets it to the system
\* preference.
C20_ManualChoiceWins ==
    [][(theme.pc = "running" /\ theme'.last = "change" /\ theme'.system # theme.system) =>
          IF theme.chosen THEN theme'.currentTheme = theme.currentTheme
          ELSE theme'.currentTheme = theme'.system]_vars

(***************************************************************************)
(* secureShuffleArray called on its own.  draws holds the values its       *)
(* getSecureRandomInt calls return, in call order: the k-th call is made   *)
(* at i = length - k with the argument i + 1.                              *)
(***************************************************************************)
\* The draw sequences secureShuffleArray can meet on an array of n elements.
DrawSeqs(n) ==
    LET m == IF n > 1 THEN n - 1 ELSE 0
    IN  {d \in [1..m -> 0..m] : \A k \in 1..m : d[k] \in getSecureRandomInt(n - k + 1)}

\* The turns of the for loop from the k-th on.
RECURSIVE ShuffleFrom(_, _, _)
ShuffleFrom(arr, draws, k) ==
    IF k > Len(draws) THEN arr
    ELSE ShuffleFrom(Swap(arr, Len(arr) - k + 1, draws[k] + 1), draws, k + 1)

\* A loop that starts one element too low: the first draw is not used.
secureShuffleArrayFromSecond(array, draws) == ShuffleFrom(array, draws, 2)

\* const shuffled = [...array]; for (...) { swap }; return shuffled
secureShuffleArray(array, draws) == ShuffleFrom(array, draws, 1)

ShufIdle == shuf = [pc |-> "none", array |-> <<>>, draws |-> <<>>, result |-> <<>>]

\* One call of secureShuffleArray(array), from its first draw to its return.
ShufCall ==
    /\ shuf.pc = "call"
    /\ \E d \in DrawSeqs(Len(shuf.array)) :
          shuf' = [shuf EXCEPT !.pc = "returned",
                               !.draws = d,
                               !.result = secureShuffleArray(shuf.array, d)]
    /\ UNCHANGED <<coreVars, strength, sync, theme, page, psize, copy>>

PageIdle ==
    page = [bulkPasswords |-> <<>>, bulkList |-> <<>>, clipboard |-> <<>>,
            event |-> "none", runs |-> 0]

PoolIdle == psize = [pc |-> "none", password |-> <<>>, poolSize |-> 0]

\* A copy button nobody has clicked: no 'copied' class, the label of its
\* markup in its span if it has one, a password shown or none.
Button(label, span, shown) ==
    [copied |-> FALSE, span |-> span, label |-> label, first |-> label,
     shown |-> shown, writes |-> 0, timers |-> <<>>, clicks |-> 0]

CopyIdle == copy = Button("Copy", TRUE, FALSE)

LateIdle == ShufIdle /\ PageIdle /\ PoolIdle /\ CopyIdle

\* The number of places of s that hold x.
Occurrences(s, x) == Cardinality({i \in 1..Len(s) : s[i] = x})

\* The result against the argument, at the return.
ShuffleReturnsPermutation ==
    shuf.pc = "returned" =>
        LET n == Len(shuf.array)
            distinct == \A i, j \in 1..n : shuf.array[i] = shuf.array[j] => i = j
        IN  /\ Len(shuf.result) = n
            /\ \A x \in Range(shuf.array) :
                  Occurrences(shuf.result, x) = Occurrences(shuf.array, x)
            /\ distinct =>
                  /\ \A d \in DrawSeqs(n) :
                        secureShuffleArray(shuf.array, d) = shuf.result => d = shuf.draws
                  /\ {secureShuffleArray(shuf.array, d) : d \in DrawSeqs(n)}
                        = {p \in [1..n -> Range(shuf.array)] :
                              \A i, j \in 1..n : p[i] = p[j] => i = j}

\* C23: the array returned is a permutation of the argument, which is left
\* as it was; for distinct elements the results over all draw sequences are
\* all the orders of the argument, and no other draw sequence gives this one.
C23_ShuffleIsPermutation ==
    /\ []ShuffleReturnsPermutation
    /\ [][shuf.pc = "call" => shuf'.array = shuf.array]_vars

\* Three distinct elements came back in reverse order.
C23_Witness ==
    /\ shuf.pc = "returned"
    /\ shuf.array = <<"a", "b", "c">>
    /\ shuf.result = <<"c", "b", "a">>

(***************************************************************************)
(* StrengthAnalyzer.getStrengthLevel in its three variants: strength.js    *)
(* (two copies of the module) and part_002.  Entropy is taken in whole     *)
(* bits: every minEntropy is an integer, so an entropy and its integer     *)
(* part pass the same tests.                                               *)
(***************************************************************************)
\* LEVELS, from WEAK to VERY_STRONG.
LEVELS(variant) ==
    LET minEntropy == IF variant = "strength.js:14" THEN <<0, 30, 50, 70, 90>>
                      ELSE <<0, 28, 36, 60, 80>>
        key == <<"weak", "fair", "good", "strong", "very-strong">>
    IN  [i \in 1..5 |-> [key |-> key[i], minEntropy |-> minEntropy[i]]]

\* The chain of tests with the STRONG comparison turned round.
getStrengthLevelTurned(variant, entropy) ==
    IF entropy >= LEVELS(variant)[5].minEntropy THEN LEVELS(variant)[5]
    ELSE IF entropy <= LEVELS(variant)[4].minEntropy THEN LEVELS(variant)[4]
    ELSE IF entropy >= LEVELS(variant)[3].minEntropy THEN LEVELS(variant)[3]
    ELSE IF entropy >= LEVELS(variant)[2].minEntropy THEN LEVELS(variant)[2]
    ELSE LEVELS(variant)[1]

getStrengthLevel(variant, entropy) ==
    IF entropy >= LEVELS(variant)[5].minEntropy THEN LEVELS(variant)[5]
    ELSE IF entropy >= LEVELS(variant)[4].minEntropy THEN LEVELS(variant)[4]
    ELSE IF entropy >= LEVELS(variant)[3].minEntropy THEN LEVELS(variant)[3]
    ELSE IF entropy >= LEVELS(variant)[2].minEntropy THEN LEVELS(variant)[2]
    ELSE LEVELS(variant)[1]

\* No analysis asked for.
StrengthIdle == strength = [variant |-> "none", entropy |-> <<0, 0>>, levels |-> <<>>]

\* getStrengthLevel is applied to each of the two entropies.
StrengthAnalyze ==
    /\ strength.levels = <<>>
    /\ strength' = [strength EXCEPT !.levels =
                        <<getStrengthLevel(strength.variant, strength.entropy[1]),
                          getStrengthLevel(strength.variant, strength.entropy[2])>>]
    /\ UNCHANGED <<coreVars, sync, theme, lateVars>>

\* The position of a level in LEVELS: Weak < Fair < Good < Strong < Very Strong.
LevelRank(variant, level) == CHOOSE i \in 1..5 : LEVELS(variant)[i] = level

\* C16: each entropy is mapped to one of the five levels, and a larger
\* entropy never to a lower level.
C16_LevelMonotonic ==
    strength.levels # <<>> =>
        /\ \A i \in 1..2 : \E k \in 1..5 : strength.levels[i] = LEVELS(strength.variant)[k]
        /\ strength.entropy[1] <= strength.entropy[2] =>
              LevelRank(strength.variant, strength.levels[1])
                <= LevelRank(strength.variant, strength.levels[2])

\* Two entropies on either side of the Strong threshold, levels two apart.
C16_Witness ==
    /\ strength.levels # <<>>
    /\ strength.entropy[1] < strength.entropy[2]
    /\ strength.levels[1].key = "fair" /\ strength.levels[2].key = "strong"

(***************************************************************************)
(* The secure source across the generators.                                *)
(***************************************************************************)
\* The getSecureRandomInt call with max > 0 that a generator stands at.
AtSecureDraw ==
    \/ pwPc \in {"reqNumbers", "reqSymbols", "seed", "fill", "shuffle"} /\ PwDrawMax > 0
    \/ pinPc = "loop" /\ PinLoopGuard
    \/ UnDrawMax > 0

\* C8: without the secure source no generator gets past a draw: no word is
\* ever delivered from anywhere, a call that threw returned nothing, and a
\* call standing at a draw has returned nothing and can only throw.
C8_NoCredentialWithoutSecureSource ==
    ~cryptoOK =>
        /\ ~drew
        /\ pwPc = "threw" => pwResult = None
        /\ pinPc = "threw" => pinResult = None
        /\ bulkPc = "threw" => bulkResult = None
        /\ unPc = "threw" => unResult = None
        /\ AtSecureDraw =>
            /\ pwResult = None /\ pinResult = None /\ bulkResult = None /\ unResult = None
            /\ ~ENABLED (PwReqNumber \/ PwReqSymbol \/ PwSeed \/ PwFill \/ PwShuffleStep
                           \/ PinDraw \/ UnDraw)

\* generateBulk ended in the error its first generatePassword call raised.
C8_Witness ==
    /\ ~cryptoOK
    /\ bulkPc = "threw" /\ pwPc = "threw"
    /\ bulkResult = None /\ passwords = <<>>

(***************************************************************************)
(* The page's bulk list over several events: Generate Bulk, Copy All and   *)
(* Download CSV, each handler run to its end before the next event.  A     *)
(* bulk count the loop of generateBulk does not run for (0, or the NaN of  *)
(* an empty field) is written 0.  page.event names the last handler that   *)
(* ended; after MaxRuns bulk runs appCall stays set, so that no further    *)
(* run starts.                                                             *)
(***************************************************************************)
\* A handler that pushes the new passwords behind the ones it has.
AppBulkEndAppending ==
    /\ appCall.kind = "bulk"
    /\ bulkPc \in {"returned", "threw"}
    /\ page' = IF bulkPc = "returned"
               THEN [page EXCEPT !.bulkPasswords = page.bulkPasswords \o bulkResult,
                                 !.bulkList = page.bulkPasswords \o bulkResult,
                                 !.event = "generateBulk",
                                 !.runs = @ + 1]
               ELSE [page EXCEPT !.event = "generateBulk", !.runs = @ + 1]
    /\ appCall' = IF page.runs + 1 < MaxRuns THEN NoCall ELSE appCall
    /\ bulkCount' = 0
    /\ passwords' = <<>>
    /\ bulkPc' = "idle"
    /\ bulkResult' = None
    /\ opts' = None
    /\ charPool' = <<>>
    /\ requiredChars' = <<>>
    /\ password' = <<>>
    /\ usedChars' = {}
    /\ availablePool' = <<>>
    /\ shuffled' = <<>>
    /\ shI' = 0
    /\ pwPc' = "idle"
    /\ pwResult' = None
    /\ pwCalls' = NoCalls
    /\ UNCHANGED <<ui, csv, options, cryptoOK, drew, rndVars, pinVars, unVars, ppVars>>
    /\ UNCHANGED <<strength, sync, theme, shuf, psize, copy>>

\* generateBulk of the page from the return of Generator.generateBulk on:
\* bulkPasswords = <its result>; bulkList.innerHTML = ''; one li per
\* password.  An exception of Generator.generateBulk ends the handler before
\* the assignment.
AppBulkEnd ==
    /\ appCall.kind = "bulk"
    /\ bulkPc \in {"returned", "threw"}
    /\ page' = IF bulkPc = "returned"
               THEN [page EXCEPT !.bulkPasswords = bulkResult,
                                 !.bulkList = bulkResult,
                                 !.event = "generateBulk",
                                 !.runs = @ + 1]
               ELSE [page EXCEPT !.event = "generateBulk", !.runs = @ + 1]
    /\ appCall' = IF page.runs + 1 < MaxRuns THEN NoCall ELSE appCall
    /\ bulkCount' = 0
    /\ passwords' = <<>>
    /\ bulkPc' = "idle"
    /\ bulkResult' = None
    /\ opts' = None
    /\ charPool' = <<>>
    /\ requiredChars' = <<>>
    /\ password' = <<>>
    /\ usedChars' = {}
    /\ availablePool' = <<>>
    /\ shuffled' = <<>>
    /\ shI' = 0
    /\ pwPc' = "idle"
    /\ pwResult' = None
    /\ pwCalls' = NoCalls
    /\ UNCHANGED <<ui, csv, options, cryptoOK, drew, rndVars, pinVars, unVars, ppVars>>
    /\ UNCHANGED <<strength, sync, theme, shuf, psize, copy>>

\* if (bulkPasswords.length > 0) copyToClipboard(bulkPasswords.join('\n'));
\* copyToClipboard hands its text to navigator.clipboard.writeText.
copyAllBulk ==
    /\ pwPc = "idle" /\ bulkPc = "idle"
    /\ page' = IF Len(page.bulkPasswords) > 0
               THEN [page EXCEPT !.clipboard = JoinWith(page.bulkPasswords, "\n"),
                                 !.event = "copyAllBulk"]
               ELSE [page EXCEPT !.event = "copyAllBulk"]
    /\ UNCHANGED <<coreVars, strength, sync, theme, shuf, psize, copy>>

\* if (bulkPasswords.length > 0) Generator.downloadCSV(bulkPasswords);
downloadBulkCSV ==
    /\ pwPc = "idle" /\ bulkPc = "idle"
    /\ csv' = IF Len(page.bulkPasswords) > 0 THEN toCSV(page.bulkPasswords) ELSE csv
    /\ page' = [page EXCEPT !.event = "downloadBulkCSV"]
    /\ UNCHANGED <<ui, appCall, cryptoOK, drew, rndVars, pwVars, pinVars, bulkVars>>
    /\ UNCHANGED <<unVars, ppVars, strength, sync, theme, shuf, psize, copy>>

BulkListNext == AppGenerateBulk \/ PwNext \/ BulkNext \/ AppBulkEnd \/ copyAllBulk \/ downloadBulkCSV

\* The lines of the CSV text for a list: the header, then index, comma and
\* the password between quotes.
CSVLines(pwds) ==
    <<CSVHeader>> \o [i \in 1..Len(pwds) |->
                        DecimalString(i) \o <<",", "\"">> \o pwds[i] \o <<"\"">>]

\* C28: the stored bulk list and the list shown change only at the end of a
\* bulk run, and then to exactly the list Generator.generateBulk returned;
\* Copy All hands over the stored list, one password per line, and Download
\* CSV its header and one line per stored password; with the stored list
\* empty neither changes the clipboard text or the download text.
C28_StoredListIsLastRun ==
    /\ [](page.bulkList = page.bulkPasswords)
    /\ [][/\ (bulkPc = "returned" /\ bulkPc' = "idle") =>
                /\ page'.bulkPasswords = bulkResult
                /\ page'.bulkList = bulkResult
          /\ page'.bulkPasswords # page.bulkPasswords =>
                bulkPc = "returned" /\ bulkPc' = "idle"
          /\ (page' # page /\ page'.event = "copyAllBulk") =>
                /\ csv' = csv
                /\ IF page.bulkPasswords = <<>>
                   THEN page'.clipboard = page.clipboard
                   ELSE Split(page'.clipboard, "\n") = page.bulkPasswords
          /\ ((page' # page \/ csv' # csv) /\ page'.event = "downloadBulkCSV") =>
                /\ page'.clipboard = page.clipboard
                /\ IF page.bulkPasswords = <<>>
                   THEN csv' = csv
                   ELSE Split(csv', "\n") = CSVLines(page.bulkPasswords)]_vars

\* Two runs with different results: the first list was copied, the second
\* one, of two passwords, was downloaded.
C28_Witness ==
    /\ page.runs >= 2 /\ page.event = "downloadBulkCSV"
    /\ Len(page.bulkPasswords) = 2
    /\ Split(csv, "\n") = CSVLines(page.bulkPasswords)
    /\ page.clipboard # <<>>
    /\ \A i \in 1..2 : Split(page.clipboard, "\n")[i] # page.bulkPasswords[i]

(***************************************************************************)
(* StrengthAnalyzer.calculatePoolSize, the same text in strength.js (twice) *)
(* and in part_002.  A regular expression range is a range of code units;  *)
(* the strings analysed are made of the two ends of each range and of the  *)
(* characters next to them.                                                *)
(***************************************************************************)
\* charCodeAt(0) of the characters analysed.
CodeUnit ==
    [c \in {"/", "0", "9", ":", "@", "A", "Z", "[", "_", "a", "z", "{"} |->
        CASE c = "/" -> 47 [] c = "0" -> 48 [] c = "9" -> 57 [] c = ":" -> 58
          [] c = "@" -> 64 [] c = "A" -> 65 [] c = "Z" -> 90 [] c = "[" -> 91
          [] c = "_" -> 95 [] c = "a" -> 97 [] c = "z" -> 122 [] c = "{" -> 123]

PoolChars == DOMAIN CodeUnit

\* /[x-y]/.test(char)
InRange(char, x, y) == CodeUnit[char] \in CodeUnit[x]..CodeUnit[y]

\* for (const char of password) { if ... else if ... else }, the second
\* test made with the range from upperFrom to upperTo; then the four sums
\* and poolSize || 1.
RECURSIVE PoolSizeFrom(_, _, _, _)
PoolSizeFrom(str, has, upperFrom, upperTo) ==
    IF str = <<>>
    THEN LET poolSize == (IF has.hasLower THEN 26 ELSE 0) + (IF has.hasUpper THEN 26 ELSE 0)
                           + (IF has.hasDigits THEN 10 ELSE 0)
                           + (IF has.hasSymbols THEN 32 ELSE 0)
         IN  IF poolSize = 0 THEN 1 ELSE poolSize
    ELSE LET char == Head(str)
             next == IF InRange(char, "a", "z") THEN [has EXCEPT !.hasLower = TRUE]
                     ELSE IF InRange(char, upperFrom, upperTo)
                          THEN [has EXCEPT !.hasUpper = TRUE]
                     ELSE IF InRange(char, "0", "9") THEN [has EXCEPT !.hasDigits = TRUE]
                     ELSE [has EXCEPT !.hasSymbols = TRUE]
         IN  PoolSizeFrom(Tail(str), next, upperFrom, upperTo)

NoClass == [hasLower |-> FALSE, hasUpper |-> FALSE, hasDigits |-> FALSE, hasSymbols |-> FALSE]

\* The second test written /[A-z]/.
calculatePoolSizeWideRange(str) == PoolSizeFrom(str, NoClass, "A", "z")

calculatePoolSize(str) == PoolSizeFrom(str, NoClass, "A", "Z")

\* One call of calculatePoolSize(password), str being its argument.
PoolCall ==
    /\ psize.pc = "call"
    /\ psize' = [psize EXCEPT !.pc = "returned",
                              !.poolSize = calculatePoolSize(psize.password)]
    /\ UNCHANGED <<coreVars, strength, sync, theme, shuf, page, copy>>

\* The strings of the characters analysed.
PoolStrings == UNION {[1..n -> PoolChars] : n \in 0..MaxPoolLen}

Reverse(str) == [i \in 1..Len(str) |-> str[Len(str) + 1 - i]]

\* C29: the value returned is 26 for a lowercase letter present, plus 26 for
\* an uppercase letter, plus 10 for a digit, plus 32 for any other
\* character; the string read backwards and the string written twice give
\* the same value; the value is 1 for the empty string and for no other.
C29_PoolSizeByClasses ==
    psize.pc = "returned" =>
        LET str == psize.password
            chars == Range(str)
            lower == chars \cap Range(LOWERCASE)
            upper == chars \cap Range(UPPERCASE)
            digit == chars \cap Range(NUMBERS)
            other == chars \ (Range(LOWERCASE) \cup Range(UPPERCASE) \cup Range(NUMBERS))
            sum == (IF lower # {} THEN 26 ELSE 0) + (IF upper # {} THEN 26 ELSE 0)
                     + (IF digit # {} THEN 10 ELSE 0) + (IF other # {} THEN 32 ELSE 0)
        IN  /\ str # <<>> => psize.poolSize = sum
            /\ psize.poolSize = 1 <=> str = <<>>
            /\ calculatePoolSize(Reverse(str)) = psize.poolSize
            /\ calculatePoolSize(str \o str) = psize.poolSize

\* An uppercase letter between the two characters next to its range.
C29_Witness ==
    /\ psize.pc = "returned"
    /\ psize.password = <<"@", "Z", "[">>
    /\ psize.poolSize = 58

(***************************************************************************)
(* A copy button: the click handler, copyToClipboard and showCopySuccess.  *)
(* copyToClipboard awaits the clipboard write, so the rest of it runs as a *)
(* later task; each showCopySuccess starts a timer of 1500 ms, and timers  *)
(* of one delay fire in the order they were started.  copy.timers holds    *)
(* the originalText of each pending timer, copy.writes the number of       *)
(* clipboard writes awaited, copy.first the label before the first click.  *)
(***************************************************************************)
\* The click handler of the button: copyToClipboard(text, button) if a
\* password is shown; copyToClipboard runs up to its await.
CopyClick ==
    /\ copy.clicks < MaxClicks
    /\ copy' = [copy EXCEPT !.clicks = @ + 1,
                            !.writes = IF copy.shown THEN @ + 1 ELSE @]
    /\ UNCHANGED <<coreVars, strength, sync, theme, shuf, page, psize>>

\* button.classList.add('copied'); originalText = span ? span.textContent :
\* 'Copy'; if (span) span.textContent = 'Copied!'; setTimeout(..., 1500)
showCopySuccess(button) ==
    [button EXCEPT !.copied = TRUE,
                   !.label = IF button.span THEN "Copied!" ELSE @,
                   !.timers = Append(@, IF button.span THEN button.label ELSE "Copy")]

\* copyToClipboard after its await: the write succeeded, or it failed and
\* execCommand('copy') succeeded (showCopySuccess in both cases), or both
\* failed (a toast only).
copyToClipboard ==
    /\ copy.writes > 0
    /\ \E outcome \in {"written", "fallback", "failed"} :
          copy' = IF outcome = "failed"
                  THEN [copy EXCEPT !.writes = @ - 1]
                  ELSE showCopySuccess([copy EXCEPT !.writes = @ - 1])
    /\ UNCHANGED <<coreVars, strength, sync, theme, shuf, page, psize>>

\* The timer's callback: button.classList.remove('copied');
\* if (span) span.textContent = originalText;
CopyTimer ==
    /\ copy.timers # <<>>
    /\ copy' = [copy EXCEPT !.copied = FALSE,
                            !.label = IF copy.span THEN Head(copy.timers) ELSE @,
                            !.timers = Tail(@)]
    /\ UNCHANGED <<coreVars, strength, sync, theme, shuf, page, psize>>

CopyNext == CopyClick \/ copyToClipboard \/ CopyTimer

\* C30: with no clipboard write awaited and no timer pending, the button
\* does not carry the 'copied' class and its label is the one it had before
\* the first click.
C30_ButtonRestored ==
    (copy.writes = 0 /\ copy.timers = <<>>) =>
        /\ ~copy.copied
        /\ copy.label = copy.first

(***************************************************************************)
(* Specifications: one call of one operation, its inputs chosen at Init.   *)
(***************************************************************************)
\* The operations outside the four generators are not running.
MoreIdle == PpIdle /\ AppIdle /\ StrengthIdle /\ SyncIdle /\ ThemeIdle /\ LateIdle

\* Nothing of the generators or the page is running.
CoreIdle ==
    /\ cryptoOK = TRUE /\ drew = FALSE
    /\ RndIdle /\ PwIdle /\ PinIdle /\ BulkIdle /\ UnIdle /\ PpIdle /\ AppIdle

StrengthInit ==
    /\ CoreIdle /\ SyncIdle /\ ThemeIdle /\ LateIdle
    /\ strength \in [variant : {"strength.js:14", "strength.js:245", "part_002:10"},
                     entropy : (0..MaxEntropy) \X (0..MaxEntropy),
                     levels : {<<>>}]

SpecStrength == StrengthInit /\ [][StrengthAnalyze]_vars

\* A pair is registered; both elements show the same value of the range.
SyncInit ==
    /\ CoreIdle /\ StrengthIdle /\ ThemeIdle /\ LateIdle
    /\ \E pair \in {"passwordLength", "bulkCount"} :
         \E v \in SliderMarkup(pair).input.min..SliderMarkup(pair).input.max :
            sync = [pair |-> pair, slider |-> IntString(v), input |-> IntString(v),
                    event |-> "none", typed |-> <<>>, callback |-> "none"]

SpecSync == SyncInit /\ [][SyncNext]_vars

\* secureShuffleArray is called with an array of at most MaxShuffle elements.
ShuffleInit ==
    /\ CoreIdle /\ StrengthIdle /\ SyncIdle /\ ThemeIdle /\ PageIdle /\ PoolIdle /\ CopyIdle
    /\ \E n \in 0..MaxShuffle : \E a \in [1..n -> {"a", "b", "c", "d"}] :
          shuf = [pc |-> "call", array |-> a, draws |-> <<>>, result |-> <<>>]

SpecShuffle == ShuffleInit /\ [][ShufCall]_vars

\* The page has loaded and Theme.init() has not run yet.  A theme in
\* localStorage was put there by toggle or setTheme on an earlier load.
ThemeStart ==
    /\ CoreIdle /\ StrengthIdle /\ SyncIdle /\ LateIdle
    /\ \E ok \in BOOLEAN, mm \in BOOLEAN, meta \in {"absent", "#ffffff"},
          st \in {"null", DARK, LIGHT}, sys \in {DARK, LIGHT} :
          /\ ok \/ st = "null"
          /\ theme = [pc |-> "loaded", currentTheme |-> LIGHT, dataTheme |-> "unset",
                   metaThemeColor |-> meta, storage |-> st, storageOK |-> ok,
                   matchMedia |-> mm, system |-> sys, chosen |-> (st # "null"),
                   last |-> "none"]

SpecTheme == ThemeStart /\ [][ThemeNext]_vars

PasswordInit ==
    /\ cryptoOK \in BOOLEAN
    /\ drew = FALSE
    /\ RndIdle /\ PinIdle /\ BulkIdle /\ UnIdle /\ MoreIdle
    /\ \E o \in PasswordOptions : PwCalled(o)

Spec == PasswordInit /\ [][PwNext]_vars

\* generatePassword called with the built-in symbols and no exclusions: the
\* configurations that decide how many draws a call makes.
CallsInit ==
    /\ cryptoOK \in BOOLEAN
    /\ drew = FALSE
    /\ RndIdle /\ PinIdle /\ BulkIdle /\ UnIdle /\ MoreIdle
    /\ \E o \in PasswordOptions :
          /\ o.customSymbols = <<>> /\ ~o.excludeBrackets /\ ~o.excludeAmbiguous
          /\ PwCalled(o)

SpecCalls == CallsInit /\ [][PwNext]_vars

PINInit ==
    /\ cryptoOK \in BOOLEAN
    /\ drew = FALSE
    /\ RndIdle /\ PwIdle /\ BulkIdle /\ UnIdle /\ MoreIdle
    /\ \E o \in PinOptions : PinCalled(o)

SpecPIN == PINInit /\ [][PinNext]_vars

RandomInit ==
    /\ cryptoOK \in BOOLEAN
    /\ drew = FALSE
    /\ RndInit
    /\ PwIdle /\ PinIdle /\ BulkIdle /\ UnIdle /\ MoreIdle

RandomNext == RndCall \/ RndDraw \/ RndThrow

SpecRandom == RandomInit /\ [][RandomNext]_vars

\* The four generators with and without the secure source: generatePassword
\* and generateBulk, generatePIN, and every username style.
GenPasswordOptions ==
    {o \in PasswordOptions :
        /\ \/ o.customSymbols = <<>> /\ ~o.excludeBrackets
           \/ o.customSymbols = <<"(">> /\ o.excludeBrackets
        /\ ~o.excludeAmbiguous
        /\ o.minNumbers <= 1 /\ o.minSymbols <= 1}

GenBulkOptions ==
    {o \in GenPasswordOptions :
        o.length = 1 /\ o.minNumbers = 0 /\ o.minSymbols = 0 /\ o.customSymbols = <<>>}

GeneratorsInit ==
    /\ cryptoOK \in BOOLEAN
    /\ drew = FALSE
    /\ RndIdle /\ MoreIdle
    /\ \/ (\E o \in GenPasswordOptions : PwCalled(o)) /\ PinIdle /\ BulkIdle /\ UnIdle
       \/ (\E o \in PinOptions : PinCalled(o)) /\ PwIdle /\ BulkIdle /\ UnIdle
       \/ (\E n \in 1..MaxBulk, o \in GenBulkOptions : BulkCalled(n, o)) /\ PinIdle /\ UnIdle
       \/ (\E st \in Styles, o \in UsernameOptions : UnCalled(st, o))
              /\ PwIdle /\ PinIdle /\ BulkIdle

AppInit ==
    /\ cryptoOK \in BOOLEAN
    /\ drew = FALSE
    /\ RndIdle /\ PwIdle /\ PinIdle /\ BulkIdle /\ UnIdle /\ PpIdle /\ StrengthIdle /\ SyncIdle /\ ThemeIdle /\ LateIdle
    /\ ui \in AppForms
    /\ appCall = NoCall
    /\ csv = <<>>

SpecApp == AppInit /\ [][AppNext]_vars

\* One call of generatePassword, generatePIN or generatePassphrase.
FrameInit ==
    /\ cryptoOK \in BOOLEAN
    /\ drew = FALSE
    /\ RndIdle /\ BulkIdle /\ UnIdle /\ AppIdle /\ StrengthIdle /\ SyncIdle /\ ThemeIdle /\ LateIdle
    /\ \/ /\ \E o \in PasswordOptions :
                /\ o.customSymbols = <<>> /\ ~o.excludeBrackets
                /\ o.minNumbers <= 1 /\ o.minSymbols <= 1
                /\ PwCalled(o)
          /\ PinIdle /\ PpIdle
       \/ (\E o \in PinOptions : PinCalled(o)) /\ PwIdle /\ PpIdle
       \/ (\E o \in PassphraseOptions : PpCalled("loaded", o)) /\ PwIdle /\ PinIdle

SpecFrame == FrameInit /\ [][PwNext \/ PinNext \/ PpNext]_vars

PassphraseInit ==
    /\ cryptoOK \in BOOLEAN
    /\ drew = FALSE
    /\ RndIdle /\ PwIdle /\ PinIdle /\ BulkIdle /\ UnIdle /\ AppIdle /\ StrengthIdle /\ SyncIdle /\ ThemeIdle /\ LateIdle
    /\ \E w \in {"undefined", "empty", "loaded"}, o \in PassphraseOptions : PpCalled(w, o)

SpecPassphrase == PassphraseInit /\ [][PpNext]_vars

GeneratorsNext == PwNext \/ PinNext \/ BulkNext \/ UnNext

SpecGenerators == GeneratorsInit /\ [][GeneratorsNext]_vars

\* UsernameGenerator.generate is called with a documented or an unknown selector.
UsernameInit ==
    /\ cryptoOK \in BOOLEAN
    /\ drew = FALSE
    /\ RndIdle /\ PwIdle /\ PinIdle /\ BulkIdle /\ MoreIdle
    /\ \E st \in Styles \cup {"unknown"}, o \in UsernameOptions : UnCalled(st, o)

SpecUsername == UsernameInit /\ [][UnNext]_vars

\* The page from its load on: the form as the user left it, then the events.
\* The bulk counts: none, one, two.  The forms: one character with all
\* classes off, from the lowercase letters or from typed symbols; two
\* lowercase letters; one character with every class but uppercase on, both
\* minimums at one and beginWithLetter.
PageForms ==
    {[f EXCEPT !.bulkCount = n] :
        f \in {g \in AppForms :
                  /\ g.bulkCount = 1 /\ ~g.uppercase /\ ~g.excludeAmbiguous
                  /\ \/ /\ g.length = 1 /\ ~g.numbers /\ g.minNumbers = 0
                        /\ ~g.beginWithLetter
                        /\ g.symbols <=> g.customSymbols # <<>>
                        /\ ~(g.symbols /\ g.lowercase)
                     \/ /\ g.length = 2 /\ g.lowercase /\ ~g.numbers /\ ~g.symbols
                        /\ g.minNumbers = 0 /\ ~g.beginWithLetter
                        /\ g.customSymbols = <<>>
                     \/ /\ g.length = 1 /\ g.lowercase /\ g.numbers /\ g.symbols
                        /\ g.minNumbers = 1 /\ g.beginWithLetter
                        /\ g.customSymbols = <<>>},
        n \in 0..2}

BulkListInit ==
    /\ cryptoOK \in BOOLEAN
    /\ drew = FALSE
    /\ RndIdle /\ PwIdle /\ PinIdle /\ BulkIdle /\ UnIdle /\ PpIdle
    /\ StrengthIdle /\ SyncIdle /\ ThemeIdle /\ LateIdle
    /\ ui \in PageForms
    /\ appCall = NoCall
    /\ csv = <<>>

SpecBulkList == BulkListInit /\ [][BulkListNext]_vars

PoolInit ==
    /\ CoreIdle /\ StrengthIdle /\ SyncIdle /\ ThemeIdle /\ ShufIdle /\ PageIdle /\ CopyIdle
    /\ \E str \in PoolStrings : psize = [pc |-> "call", password |-> str, poolSize |-> 0]

SpecPool == PoolInit /\ [][PoolCall]_vars

\* A page with one copy button, its label in a span or not, a password
\* shown or not.
CopyInit ==
    /\ CoreIdle /\ StrengthIdle /\ SyncIdle /\ ThemeIdle /\ ShufIdle /\ PageIdle /\ PoolIdle
    /\ \E label \in {"Copy", "Copy PIN"}, span \in BOOLEAN, shown \in BOOLEAN :
          copy = Button(label, span, shown)

SpecCopy == CopyInit /\ [][CopyNext]_vars

====
